---- MODULE Spec2Model ----
(***************************************************************************)
(* A model of the wire-harness colour-sequence detector.                   *)
(*                                                                         *)
(* The module holds one group of variables per component and one           *)
(* specification per component; a component's specification leaves the     *)
(* other groups at their idle values.                                      *)
(*                                                                         *)
(*   Spec          tasks/wire_color.py   is_same_wire_color,               *)
(*                                       is_same_color_sequence            *)
(*   SpecLab       tasks/wire_color.py   find_wire_lab_color               *)
(*   SpecContour   utils/contour_utils.py filter_out_small_contours,       *)
(*                                       filter_for_largest_contour        *)
(*   SpecConnector tasks/connector.py    find_connector_contour and its    *)
(*                                       callers in stages/ and main.py    *)
(*   SpecRect      utils/rect_utils.py   get_straigten_rotation_angle,     *)
(*                                       get_obj_actual_width_and_height   *)
(*   SpecRoi       tasks/wire_roi.py     is_valid_wire_roi, find_wire_roi  *)
(*   SpecWires     tasks/wires.py        find_wires                        *)
(*   SpecThresh    tasks/preprocess.py   threshold_with_inRange            *)
(*   SpecFlip      tasks/wire_roi.py     the retry angle of find_wire_roi  *)
(*   SpecWorkflow  stages/               the four stages and their keys    *)
(*   SpecStream    tools/video_stream.py PiCameraStream                    *)
(*   SpecStreamLive                      the same with an endless camera   *)
(*                                       and fair scheduling               *)
(*   SpecRestart, SpecRestartLive        the same two with one more thread *)
(*                                       for start() to launch             *)
(***************************************************************************)
EXTENDS Integers, Sequences, FiniteSets, TLC

VARIABLES
    \* ---- Sequence Matcher (tasks/wire_color.py:55-98) ----
    ref_wire_housing_colors,      \* argument: the reference colour sequence
    target_wire_housing_colors,   \* argument: the candidate colour sequence
    acceptable_delta_e_threshold, \* argument: the threshold, in 1/1000 delta E
    matcher,                      \* what the last call did and returned
    \* ---- Wire Colorimeter (tasks/wire_color.py:15-52) ----
    wire_img,                     \* argument: the wire crop, a grid of BGR pixels
    wire_lab,                     \* local wire_lab after line 28 (NaN filled in)
    lab_color,                    \* the returned (L, a, b) triple and call status
    \* ---- Contour Filter (utils/contour_utils.py:8-54) ----
    thresh_img,                   \* argument: the binary mask
    min_contour_area,             \* argument: the area threshold / floor
    filtered,                     \* what the last filter call did and returned
    \* ---- Connector Locator and its callers ----
    frame_threshold,              \* the mask of the frame being processed
    caller,                       \* the caller's locals after one pass
    \* ---- Orientation Solver (utils/rect_utils.py) ----
    min_area_rect,                \* argument: (centre, (width, height), angle)
    is_height_longer_than_width,  \* argument: the object's real-life aspect
    rect_result,                  \* what the last call did and returned
    \* ---- Wire ROI Extractor (tasks/wire_roi.py) ----
    roi_frame,                    \* argument: the white-background frame
    roi_connector_rect,           \* cv2.minAreaRect of the connector contour
    roi_flag,                     \* argument: is_height_greater_than_width
    roi_call,                     \* what the last call did and returned
    \* ---- Wire Segmenter (tasks/wires.py) ----
    watershed_labels,             \* local watershed_labels after line 93
    wires_result,                 \* what find_wires did and returned
    \* ---- Thresholder (tasks/preprocess.py:32-54) ----
    frame_hsv,                    \* argument: the frame in HSV
    bg_img_hsv,                   \* argument: the background reference in HSV
    inrange_result,               \* what threshold_with_inRange did and returned
    \* ---- Frame source (tools/video_stream.py) ----
    is_running,                   \* the attribute is_running, or that it is missing
    frame_queue,                  \* __frame_queue: the frames in the queue
    capture_threads,              \* each capture thread's place in __run and its frame
    captured,                     \* the number of the last frame capture_stream gave
    closes,                       \* how many times __shutdown closed the camera
    readers,                      \* each reader's place in read() and its last outcome
    returned,                     \* the frames read() returned
    published,                    \* the last frame put into the queue
    replaced,                     \* the frames get_nowait() removed unread
    start_call,                   \* what the last start() found and did
    after_stop,                   \* what the threads did since the last stop()
    \* ---- The retry flip of find_wire_roi (tasks/wire_roi.py:164-166) ----
    straighten_angle,             \* rotation_angle as the Orientation Solver gave it
    retry_angles,                 \* rotation_angle after each pass through line 165
    \* ---- The workflow (stages/) ----
    control,                      \* the cv2.waitKey at which the control thread stands
    input_key,                    \* the key the last cv2.waitKey returned
    initialize_stage,             \* InitializeStage.run's first answer
    bg_capture_stage,             \* BgCaptureStage: fields, and run's captured_frame
    reference_capture_stage,      \* ReferenceCaptureStage: fields, and run's sequence
    check_capture_stage,          \* CheckCaptureStage: fields
    shots,                        \* the number of frames the stages kept
    user_answers                  \* the frames and sequences the user accepted, rejected

colorVars     == <<ref_wire_housing_colors, target_wire_housing_colors,
                   acceptable_delta_e_threshold, matcher>>
labVars       == <<wire_img, wire_lab, lab_color>>
contourVars   == <<thresh_img, min_contour_area, filtered>>
connectorVars == <<frame_threshold, caller>>
rectVars      == <<min_area_rect, is_height_longer_than_width, rect_result>>
roiVars       == <<roi_frame, roi_connector_rect, roi_flag, roi_call>>
wiresVars     == <<watershed_labels, wires_result>>
threshVars    == <<frame_hsv, bg_img_hsv, inrange_result>>
streamVars    == <<is_running, frame_queue, capture_threads, captured, closes, readers,
                   returned, published, replaced, start_call, after_stop>>
flipVars      == <<straighten_angle, retry_angles>>
workflowVars  == <<control, input_key, initialize_stage, bg_capture_stage,
                   reference_capture_stage, check_capture_stage, shots, user_answers>>
vars          == <<colorVars, labVars, contourVars, connectorVars,
                   rectVars, roiVars, wiresVars, threshVars,
                   streamVars, flipVars, workflowVars>>

(***************************************************************************)
(* Values shared by the components.                                        *)
(***************************************************************************)

\* np.nan: the "no data" value of a colour component or of a distance.
\* Every defined component and distance is >= 0, so -1 is free to stand for it.
NaN == -1

\* The longest colour sequence the matcher is tried on.
MaxLen == 2

\* OpenCV 8-bit LAB triples (L*255/100, a+128, b+128).
RedLab     == <<136, 208, 195>>
NearRedLab == <<138, 206, 193>>
BlueLab    == <<82, 207, 20>>
BlackLab   == <<0, 128, 128>>
\* LAB representation of white colour (cv2.cvtColor of BGR (255,255,255)).
WHITE_LAB_COLOR == <<255, 128, 128>>

\* A crop with no evaluable pixel, and a crop whose a and b means are no data.
NoDataLab      == <<NaN, NaN, NaN>>
PartialDataLab == <<0, NaN, NaN>>

IsDefinedColor(c) == c[1] # NaN /\ c[2] # NaN /\ c[3] # NaN

(***************************************************************************)
(* Sequence Matcher: tasks/wire_color.py:55-98                             *)
(***************************************************************************)

\* Default threshold to consider two colours equal (5 delta E), in 1/1000.
DEFAULT_ACCEPTABLE_DELTA_E_THRESHOLD == 5000

\* The colours and thresholds the matcher is tried on. The thresholds are a
\* negative one, zero, the exact distance of RedLab and NearRedLab, and the
\* default.
MatcherColors     == {RedLab, NearRedLab, BlueLab, NoDataLab, PartialDataLab}
MatcherThresholds == {-1000, 0, 915, DEFAULT_ACCEPTABLE_DELTA_E_THRESHOLD}

SeqsUpTo(S, n) == UNION {[1..k -> S] : k \in 0..n}

\* LabColor(lab_l=c[0] * 100 / 255, lab_a=c[1] - 128, lab_b=c[2] - 128),
\* in 1/1000 of a unit; arithmetic on NaN gives NaN.
LabColor(c) ==
    << IF c[1] = NaN THEN NaN ELSE (c[1] * 100000) \div 255,
       IF c[2] = NaN THEN NaN ELSE (c[2] - 128) * 1000,
       IF c[3] = NaN THEN NaN ELSE (c[3] - 128) * 1000 >>

\* A converted colour with a NaN component (a converted a or b is a multiple
\* of 1000 and a converted L is >= 0, so none of them collides with NaN).
HasNaN(lab) == lab[1] = NaN \/ lab[2] = NaN \/ lab[3] = NaN

\* colormath's CIEDE2000 distance, in 1/1000, of the converted colours the
\* matcher is tried on (computed with the CIEDE2000 formula, rounded).
DeltaETable ==
    LET r == LabColor(RedLab)  n == LabColor(NearRedLab)  b == LabColor(BlueLab)
    IN  (<<r, r>> :> 0)     @@ (<<n, n>> :> 0)     @@ (<<b, b>> :> 0)
     @@ (<<r, n>> :> 915)   @@ (<<n, r>> :> 915)
     @@ (<<r, b>> :> 52944) @@ (<<b, r>> :> 52944)
     @@ (<<n, b>> :> 53001) @@ (<<b, n>> :> 53001)

\* color_diff.delta_e_cie2000(c1, c2): every term of the formula is NaN as soon
\* as one component of either colour is NaN, and so is the result.
delta_e_cie2000(c1, c2) ==
    IF HasNaN(c1) \/ HasNaN(c2) THEN NaN ELSE DeltaETable[<<c1, c2>>]

\* Mutant of FloatLeq: NaN ordered like the number that stands for it.
FloatLeqNaNOrdered(x, y) == x <= y

\* Mutant of FloatLeq: strict comparison.
FloatLeqStrict(x, y) == x # NaN /\ y # NaN /\ x < y

\* x <= y on floats: False when either side is NaN.
FloatLeq(x, y) == x # NaN /\ y # NaN /\ x <= y

\* Mutant of is_same_wire_color: same colour only when the distance is the
\* threshold itself.
is_same_wire_color_at(wire_1_lab, wire_2_lab, delta_e_threshold) ==
    LET delta_e_2000 == delta_e_cie2000(LabColor(wire_1_lab), LabColor(wire_2_lab))
    IN  delta_e_2000 # NaN /\ delta_e_2000 = delta_e_threshold

\* Mutant of is_same_wire_color: same colour only when the distance is below
\* the threshold.
is_same_wire_color_below(wire_1_lab, wire_2_lab, delta_e_threshold) ==
    LET delta_e_2000 == delta_e_cie2000(LabColor(wire_1_lab), LabColor(wire_2_lab))
    IN  delta_e_2000 # NaN /\ delta_e_2000 < delta_e_threshold

is_same_wire_color(wire_1_lab, wire_2_lab, delta_e_threshold) ==
    LET wire_1_lab_color == LabColor(wire_1_lab)
        wire_2_lab_color == LabColor(wire_2_lab)
        delta_e_2000     == delta_e_cie2000(wire_1_lab_color, wire_2_lab_color)
    IN  FloatLeq(delta_e_2000, delta_e_threshold)

\* The loop of lines 91-95 from index i on: the value returned and the number
\* of pairs that were compared before returning.
RECURSIVE CompareFrom(_, _, _, _)
CompareFrom(ref, target, t, i) ==
    IF i > Len(ref)
    THEN [returned |-> TRUE, compared |-> i - 1]
    ELSE IF ~is_same_wire_color(ref[i], target[i], t)
         THEN [returned |-> FALSE, compared |-> i]
         ELSE CompareFrom(ref, target, t, i + 1)

Min(a, b) == IF a <= b THEN a ELSE b

\* Mutant of is_same_color_sequence: no length check, the pairs are zipped.
is_same_color_sequence_zipped(ref, target, t) ==
    LET n == Min(Len(ref), Len(target))
    IN  CompareFrom(SubSeq(ref, 1, n), SubSeq(target, 1, n), t, 1)

is_same_color_sequence(ref, target, t) ==
    IF Len(ref) # Len(target)
    THEN [returned |-> FALSE, compared |-> 0]
    ELSE CompareFrom(ref, target, t, 1)

MatcherIdle == [op |-> "none", returned |-> FALSE, compared |-> 0]

InitColor ==
    /\ ref_wire_housing_colors \in SeqsUpTo(MatcherColors, MaxLen)
    /\ target_wire_housing_colors \in SeqsUpTo(MatcherColors, MaxLen)
    /\ acceptable_delta_e_threshold \in MatcherThresholds
    /\ matcher = MatcherIdle

IdleColor ==
    /\ ref_wire_housing_colors = <<>>
    /\ target_wire_housing_colors = <<>>
    /\ acceptable_delta_e_threshold = DEFAULT_ACCEPTABLE_DELTA_E_THRESHOLD
    /\ matcher = MatcherIdle

\* A call of is_same_wire_color on the first colours of the two sequences.
CallIsSameWireColor ==
    /\ matcher.op = "none"
    /\ Len(ref_wire_housing_colors) >= 1
    /\ Len(target_wire_housing_colors) >= 1
    /\ matcher' = [op       |-> "is_same_wire_color",
                   returned |-> is_same_wire_color(ref_wire_housing_colors[1],
                                                   target_wire_housing_colors[1],
                                                   acceptable_delta_e_threshold),
                   compared |-> 1]
    /\ UNCHANGED <<ref_wire_housing_colors, target_wire_housing_colors,
                   acceptable_delta_e_threshold>>

\* A call of is_same_color_sequence on the two sequences.
CallIsSameColorSequence ==
    /\ matcher.op = "none"
    /\ LET r == is_same_color_sequence(ref_wire_housing_colors,
                                       target_wire_housing_colors,
                                       acceptable_delta_e_threshold)
       IN  matcher' = [op |-> "is_same_color_sequence",
                       returned |-> r.returned, compared |-> r.compared]
    /\ UNCHANGED <<ref_wire_housing_colors, target_wire_housing_colors,
                   acceptable_delta_e_threshold>>

(***************************************************************************)
(* Wire Colorimeter: tasks/wire_color.py:9-52                              *)
(***************************************************************************)

\* The largest wire crop the colorimeter is tried on.
MaxRows == 2
MaxCols == 2

\* 8-bit BGR pixels of a wire crop: the white background, a black wire and a
\* red wire.
WhiteBgr == <<255, 255, 255>>
BlackBgr == <<0, 0, 0>>
RedBgr   == <<0, 0, 255>>
Pixels   == {WhiteBgr, BlackBgr, RedBgr}

\* cv2.cvtColor(_, cv2.COLOR_BGR2LAB) on one 8-bit pixel.
BGR2LAB(px) ==
    CASE px = WhiteBgr -> WHITE_LAB_COLOR
      [] px = BlackBgr -> BlackLab
      [] px = RedBgr   -> RedLab

Crops == UNION {[1..h -> [1..w -> Pixels]] : h \in 1..MaxRows, w \in 1..MaxCols}

\* Mutant of FillBackgroundAsNaN: the background is not filled in.
FillBackgroundAsNaNSkipped(lab) == lab

\* wire_lab[wire_lab == WHITE_LAB_COLOR] = np.nan. The comparison broadcasts
\* the three-element reference over the last axis, so it is made element by
\* element: channel k of a pixel is filled in when it equals channel k of white.
FillBackgroundAsNaN(lab) ==
    [r \in DOMAIN lab |->
        [c \in DOMAIN lab[r] |->
            [k \in 1..3 |->
                IF lab[r][c][k] = WHITE_LAB_COLOR[k] THEN NaN ELSE lab[r][c][k]]]]

\* Lines 22-28: the crop in LAB with the background filled in as NaN.
WireLab(img) ==
    FillBackgroundAsNaN([r \in DOMAIN img |-> [c \in DOMAIN img[r] |-> BGR2LAB(img[r][c])]])

RECURSIVE SumOver(_, _)
SumOver(f, S) ==
    IF S = {} THEN 0
    ELSE LET x == CHOOSE y \in S : TRUE IN f[x] + SumOver(f, S \ {x})

\* np.nanmean of a sequence, in 1/1000: the mean of the entries that are not
\* NaN, and NaN when there is none.
nanmean(vals) ==
    LET kept == {i \in DOMAIN vals : vals[i] # NaN}
    IN  IF kept = {} THEN NaN
        ELSE (SumOver(vals, kept) * 1000) \div Cardinality(kept)

\* The k-th smallest of the entries of vals at the indices kept.
KthSmallest(vals, kept, k) ==
    CHOOSE x \in {vals[i] : i \in kept} :
        /\ Cardinality({i \in kept : vals[i] < x}) < k
        /\ Cardinality({i \in kept : vals[i] <= x}) >= k

\* np.nanmedian of a sequence: the median of the entries that are not NaN (the
\* mean of the two middle ones when their number is even), NaN when there is
\* none.
nanmedian(vals) ==
    LET kept == {i \in DOMAIN vals : vals[i] # NaN}
        n    == Cardinality(kept)
    IN  IF n = 0 THEN NaN
        ELSE IF n % 2 = 1 THEN KthSmallest(vals, kept, (n + 1) \div 2)
        ELSE (KthSmallest(vals, kept, n \div 2)
              + KthSmallest(vals, kept, n \div 2 + 1)) \div 2

\* Lines 36-45: the mean of channel k over each bin (pixel column).
BinVals(lab, k) ==
    [bin \in DOMAIN lab[1] |-> nanmean([r \in DOMAIN lab |-> lab[r][bin][k]])]

\* Lines 21-52, in 1/1000 of an 8-bit LAB unit.
find_wire_lab_color(img) ==
    LET lab == WireLab(img)
    IN  <<nanmedian(BinVals(lab, 1)), nanmedian(BinVals(lab, 2)), nanmedian(BinVals(lab, 3))>>

NoImage   == <<>>
LabIdle   == [called |-> FALSE, value |-> NoDataLab]

InitLab ==
    /\ wire_img \in Crops
    /\ wire_lab = NoImage
    /\ lab_color = LabIdle

IdleLab ==
    /\ wire_img = NoImage
    /\ wire_lab = NoImage
    /\ lab_color = LabIdle

\* A call of find_wire_lab_color on the crop.
CallFindWireLabColor ==
    /\ ~lab_color.called
    /\ wire_lab' = WireLab(wire_img)
    /\ lab_color' = [called |-> TRUE, value |-> find_wire_lab_color(wire_img)]
    /\ UNCHANGED wire_img

(***************************************************************************)
(* Binary masks.                                                           *)
(*                                                                         *)
(* A mask is the set of its blobs (8-connected foreground regions). A blob *)
(* carries what the toolkit's queries report about it:                     *)
(*   id      a name, also the blob's position in the order in which        *)
(*           cv2.findContours lists contours;                              *)
(*   inside  0 for a blob that lies in no hole, else the id of the blob in *)
(*           whose hole it lies;                                           *)
(*   area    cv2.contourArea of its outer contour, in pixels;              *)
(*   core    cv2.contourArea of what 10 erosions with the 5x5 kernel leave *)
(*           of it, 0 when they leave nothing;                             *)
(*   eroded  whether the mask holds the blob in its eroded form.           *)
(***************************************************************************)

\* The most blobs a mask under test holds.
MaxBlobs == 2

\* Minimum area to be considered a contour of an object.
MINIMUM_VALID_CONTOUR_AREA == 2000
\* The floor remove_wires_from_treshold gives filter_for_largest_contour.
CONNECTOR_MIN_CONTOUR_AREA == 10000
\* Minimum area of contour to consider as possible candidate for wire connector.
MINIMUM_VALID_CONNECTOR_AREA == 50000

\* Areas on both sides of, and on, each program constant.
AreaValues ==
    {0, MINIMUM_VALID_CONTOUR_AREA - 1, MINIMUM_VALID_CONTOUR_AREA,
     CONNECTOR_MIN_CONTOUR_AREA - 1, CONNECTOR_MIN_CONTOUR_AREA,
     MINIMUM_VALID_CONNECTOR_AREA, MINIMUM_VALID_CONNECTOR_AREA + 1}
CoreValues ==
    {0, CONNECTOR_MIN_CONTOUR_AREA - 1, CONNECTOR_MIN_CONTOUR_AREA}
MinAreaValues ==
    {MINIMUM_VALID_CONTOUR_AREA, CONNECTOR_MIN_CONTOUR_AREA}

\* Erosion shrinks a blob. The outer contour of a blob encloses the blobs in
\* its holes, so a blob in a hole has the smaller area, and the smaller core
\* too unless the erosion leaves nothing of one of the two.
BlobChoices(n) ==
    {f \in [1..n -> [area : AreaValues, core : CoreValues, inside : 0..MaxBlobs]] :
        \A i \in 1..n :
            /\ f[i].core = 0 \/ f[i].core < f[i].area
            /\ f[i].inside < i
            /\ f[i].inside # 0 =>
                  /\ f[i].area < f[f[i].inside].area
                  /\ \/ f[i].core = 0
                     \/ f[f[i].inside].core = 0
                     \/ f[i].core < f[f[i].inside].core}

Masks ==
    UNION {{{[id |-> i, inside |-> f[i].inside, area |-> f[i].area,
              core |-> f[i].core, eroded |-> FALSE] : i \in 1..n} :
            f \in BlobChoices(n)} : n \in 0..MaxBlobs}

BlackImage == {}

BlobOf(mask, id) == CHOOSE b \in mask : b.id = id

\* cv2.contourArea(contour)
contourArea(b) == IF b.eroded THEN b.core ELSE b.area

\* cv2.findContours(mask, cv2.RETR_EXTERNAL, cv2.CHAIN_APPROX_SIMPLE): only the
\* extreme outer contours, so no contour of a blob that lies in a hole.
findContoursExternal(mask) == {b \in mask : b.inside = 0}

\* The blobs of the mask that lie within the outer contour of b, b included.
RECURSIVE Within(_, _)
Within(mask, b) ==
    {b} \cup UNION {Within(mask, x) : x \in {y \in mask : y.inside = b.id}}

\* cv2.drawContours(img, contours, -1, 0, -1): every pixel within the listed
\* contours becomes background.
drawContoursBlack(mask, contours) ==
    mask \ UNION {Within(mask, b) : b \in contours}

\* cv2.drawContours(black_img, [contour], -1, 255, -1): the contour, filled.
drawContourWhite(contour) == {[contour EXCEPT !.inside = 0]}

\* max(contours, key=cv2.contourArea): the first contour of the largest area.
MaxContour(contours) ==
    CHOOSE b \in contours :
        \A x \in contours :
            \/ contourArea(x) < contourArea(b)
            \/ contourArea(x) = contourArea(b) /\ b.id <= x.id

(***************************************************************************)
(* Contour Filter: utils/contour_utils.py:8-54                             *)
(***************************************************************************)

filter_out_small_contours(img, min_area) ==
    LET contours         == findContoursExternal(img)
        contours_to_fill == {c \in contours : contourArea(c) < min_area}
    IN  drawContoursBlack(img, contours_to_fill)

\* The result of a call: raised is TRUE when the call ended in an exception
\* (max() of an empty sequence is a ValueError), and img is then unused.
filter_for_largest_contour(img, min_area) ==
    LET contours == findContoursExternal(img)
    IN  IF contours = {}
        THEN [raised |-> TRUE, img |-> BlackImage]
        ELSE LET max_contour == MaxContour(contours)
             IN  [raised |-> FALSE,
                  img    |-> IF contourArea(max_contour) >= min_area
                             THEN drawContourWhite(max_contour)
                             ELSE BlackImage]

FilterIdle == [op |-> "none", raised |-> FALSE, img |-> BlackImage]

InitContour ==
    /\ thresh_img \in Masks
    /\ min_contour_area \in MinAreaValues
    /\ filtered = FilterIdle

IdleContour ==
    /\ thresh_img = BlackImage
    /\ min_contour_area = MINIMUM_VALID_CONTOUR_AREA
    /\ filtered = FilterIdle

\* A call of filter_out_small_contours; it works on a copy of thresh_img.
CallFilterOutSmallContours ==
    /\ filtered.op = "none"
    /\ filtered' = [op     |-> "filter_out_small_contours",
                    raised |-> FALSE,
                    img    |-> filter_out_small_contours(thresh_img, min_contour_area)]
    /\ UNCHANGED <<thresh_img, min_contour_area>>

\* A call of filter_for_largest_contour; it draws on a new black image.
CallFilterForLargestContour ==
    /\ filtered.op = "none"
    /\ LET r == filter_for_largest_contour(thresh_img, min_contour_area)
       IN  filtered' = [op |-> "filter_for_largest_contour",
                        raised |-> r.raised, img |-> r.img]
    /\ UNCHANGED <<thresh_img, min_contour_area>>

(***************************************************************************)
(* Connector Locator: tasks/connector.py:10-70                             *)
(***************************************************************************)

\* The nearest blob around blob id (id itself included) that 10 erosions leave
\* something of, 0 when there is none.
RECURSIVE SurvivingAround(_, _)
SurvivingAround(mask, id) ==
    IF id = 0 THEN 0
    ELSE LET b == BlobOf(mask, id)
         IN  IF b.core > 0 THEN id ELSE SurvivingAround(mask, b.inside)

\* cv2.erode(thresh_img, kernel, iterations=10) with the 5x5 kernel: every blob
\* shrinks to its core and a blob with no core disappears.
erode(mask) ==
    {[b EXCEPT !.eroded = TRUE, !.inside = SurvivingAround(mask, b.inside)] :
        b \in {x \in mask : x.core > 0}}

\* cv2.dilate(connector_thresh, kernel, iterations=10): the blobs that are left
\* grow back to about their size (the boundary stays distorted).
dilate(mask) == {[b EXCEPT !.eroded = FALSE] : b \in mask}

\* Lines 26-33. The erosion is followed by the largest-contour filter, whose
\* exception, if any, propagates.
remove_wires_from_treshold(img) ==
    LET erode_thresh     == erode(img)
        connector_thresh == filter_for_largest_contour(erode_thresh, CONNECTOR_MIN_CONTOUR_AREA)
    IN  IF connector_thresh.raised
        THEN [raised |-> TRUE, img |-> BlackImage]
        ELSE [raised |-> FALSE, img |-> dilate(connector_thresh.img)]

\* cv2.morphologyEx(thresh_img, cv2.MORPH_CLOSE, kernel, iterations=5): the
\* holes of a blob are filled in, and with them what lay in the holes.
fill_wire_connector_holes(img) == {b \in img : b.inside = 0}

NoValue == [kind |-> "none"]

\* Line 70: return connector_contour, connector_thresh (a 2-tuple).
ReturnOfFindConnectorContour(connector_contour, connector_thresh) ==
    [kind |-> "pair", contour |-> connector_contour, thresh |-> connector_thresh]

\* Lines 59-70. raised is TRUE when the call ended in an exception: the one of
\* filter_for_largest_contour (line 48), or the ValueError of max() at line 68
\* when no contour is left; line is where it was raised.
find_connector_contour(img) ==
    LET removed == remove_wires_from_treshold(img)
    IN  IF removed.raised
        THEN [raised |-> TRUE, line |-> 48, value |-> NoValue]
        ELSE LET connector_thresh == fill_wire_connector_holes(removed.img)
                 contours         == findContoursExternal(connector_thresh)
             IN  IF contours = {}
                 THEN [raised |-> TRUE, line |-> 68, value |-> NoValue]
                 ELSE [raised |-> FALSE, line |-> 0,
                       value  |-> ReturnOfFindConnectorContour(MaxContour(contours),
                                                               connector_thresh)]

(***************************************************************************)
(* The callers of find_connector_contour:                                  *)
(*   stages/check_stage.py:65-105, stages/reference_capture_stage.py:73-114*)
(*   and main.py:10-36.                                                    *)
(***************************************************************************)

\* tasks/preprocess.py:91-113, for a frame whose blobs lie in the checked
\* middle section.
has_wire_connector_candidate(img) ==
    \E contour \in findContoursExternal(img) :
        contourArea(contour) > MINIMUM_VALID_CONNECTOR_AREA

\* cv2.minAreaRect(connector_contour), tasks/wire_roi.py:138: the query is
\* defined on a contour (an array of points) and raises on anything else.
minAreaRectDefined(connector_contour) == connector_contour.kind = "contour"

CallerIdle == [who |-> "none", outcome |-> "idle", connector_contour |-> NoValue]

\* One pass of a caller from the thresholded frame up to the start of
\* find_wire_roi. check says whether the caller asks for a connector candidate
\* first (the two stages do, main does not).
CallerPass(who, check) ==
    IF check /\ ~has_wire_connector_candidate(frame_threshold)
    THEN [who |-> who, outcome |-> "no_candidate", connector_contour |-> NoValue]
    ELSE LET r == find_connector_contour(frame_threshold)
         IN  IF r.raised
             THEN [who |-> who, outcome |-> "raised_in_find_connector_contour",
                   connector_contour |-> NoValue]
             ELSE \* connector_contour = connector.find_connector_contour(...)
                  IF minAreaRectDefined(r.value)
                  THEN [who |-> who, outcome |-> "wire_roi_started",
                        connector_contour |-> r.value]
                  ELSE [who |-> who, outcome |-> "raised_in_find_wire_roi",
                        connector_contour |-> r.value]

InitConnector ==
    /\ frame_threshold \in Masks
    /\ caller = CallerIdle

IdleConnector ==
    /\ frame_threshold = BlackImage
    /\ caller = CallerIdle

\* A direct call of find_connector_contour on the mask.
CallFindConnectorContour ==
    /\ caller.who = "none"
    /\ LET r == find_connector_contour(frame_threshold)
       IN  caller' = [who |-> "find_connector_contour",
                      outcome |-> IF r.raised THEN "raised" ELSE "returned",
                      connector_contour |-> r.value]
    /\ UNCHANGED frame_threshold

\* One pass of CheckCaptureStage.__check_color_sequence's loop body.
CheckStagePass ==
    /\ caller.who = "none"
    /\ caller' = CallerPass("check_stage", TRUE)
    /\ UNCHANGED frame_threshold

\* One pass of ReferenceCaptureStage.__get_reference_color_sequence's loop body.
ReferenceStagePass ==
    /\ caller.who = "none"
    /\ caller' = CallerPass("reference_capture_stage", TRUE)
    /\ UNCHANGED frame_threshold

\* main()
MainPass ==
    /\ caller.who = "none"
    /\ caller' = CallerPass("main", FALSE)
    /\ UNCHANGED frame_threshold

(***************************************************************************)
(* Orientation Solver (utils/rect_utils.py).                               *)
(*                                                                         *)
(* A rotated rectangle is what cv2.minAreaRect returns: a centre, a size   *)
(* (width, height) and an angle in degrees. Sines and cosines are kept in  *)
(* 1/1000, for the angles of RectAngles only.                              *)
(***************************************************************************)

RectCentres == {<<200, 150>>, <<320, 240>>}
RectSides   == {40, 41, 100}
RectAngles  == {0, 30, 45, 60, 90}
Rects       == [center : RectCentres, size : RectSides \X RectSides, angle : RectAngles]

Sin1000(a) == CASE a = 0 -> 0 [] a = 30 -> 500 [] a = 45 -> 707 [] a = 60 -> 866 [] a = 90 -> 1000
Cos1000(a) == Sin1000(90 - a)

\* Lines 34-35: cv2.boxPoints followed by astype(np.int32). boxPoints lists
\* the corners as
\*   pt0 = (cx - a*h - b*w, cy + b*h - a*w),  pt1 = (cx + a*h - b*w, cy - b*h - a*w),
\*   pt2 = 2*c - pt0,                         pt3 = 2*c - pt1,
\* with a = sin(angle)/2 and b = cos(angle)/2; the cast drops the fraction.
boxPoints(rect) ==
    LET cx == rect.center[1]
        cy == rect.center[2]
        w  == rect.size[1]
        h  == rect.size[2]
        s  == Sin1000(rect.angle)
        c  == Cos1000(rect.angle)
        x0 == 2000 * cx - s * h - c * w
        y0 == 2000 * cy + c * h - s * w
        x1 == 2000 * cx + s * h - c * w
        y1 == 2000 * cy - c * h - s * w
    IN  << <<x0 \div 2000, y0 \div 2000>>,
           <<x1 \div 2000, y1 \div 2000>>,
           <<(4000 * cx - x0) \div 2000, (4000 * cy - y0) \div 2000>>,
           <<(4000 * cx - x1) \div 2000, (4000 * cy - y1) \div 2000>> >>

\* Line 38: sorted(box, key=corner[1], reverse=True) is stable; this is the
\* index in box of the k-th corner of the sorted list.
SortedByYDescending(box, k) ==
    CHOOSE i \in DOMAIN box :
        Cardinality({j \in DOMAIN box : \/ box[j][2] > box[i][2]
                                        \/ box[j][2] = box[i][2] /\ j < i}) = k - 1

\* As IsTiltedLeft, with the tests of the height-longer case used for both
\* values of the flag.
IsTiltedLeftWhateverFlag(rect, flag) ==
    LET box     == boxPoints(rect)
        lowest  == box[SortedByYDescending(box, 1)]
        second  == box[SortedByYDescending(box, 2)]
        dist2   == (lowest[1] - second[1]) * (lowest[1] - second[1])
                   + (lowest[2] - second[2]) * (lowest[2] - second[2])
    IN  IF lowest[1] < second[1]
        THEN rect.size[1] * rect.size[1] > dist2
        ELSE rect.size[2] * rect.size[2] < dist2

\* Lines 50-60: the tilt test. The distance between the two lowest corners is
\* compared through its square, both sides being >= 0.
IsTiltedLeft(rect, flag) ==
    LET box     == boxPoints(rect)
        lowest  == box[SortedByYDescending(box, 1)]
        second  == box[SortedByYDescending(box, 2)]
        on_left == lowest[1] < second[1]
        dist2   == (lowest[1] - second[1]) * (lowest[1] - second[1])
                   + (lowest[2] - second[2]) * (lowest[2] - second[2])
        w2      == rect.size[1] * rect.size[1]
        h2      == rect.size[2] * rect.size[2]
    IN  IF flag
        THEN IF on_left THEN w2 > dist2 ELSE h2 < dist2
        ELSE IF on_left THEN w2 < dist2 ELSE h2 > dist2

\* As get_straigten_rotation_angle, with the early return taken for angle 0 only.
get_straigten_rotation_angle_zero_only(rect, flag) ==
    IF rect.angle = 0 THEN 0
    ELSE IF IsTiltedLeft(rect, flag) THEN rect.angle - 90 ELSE rect.angle

\* Lines 9-69.
get_straigten_rotation_angle(rect, flag) ==
    IF rect.angle = 0 \/ rect.angle = 90 THEN 0
    ELSE IF IsTiltedLeft(rect, flag) THEN rect.angle - 90 ELSE rect.angle

MinOf(size) == IF size[1] <= size[2] THEN size[1] ELSE size[2]
MaxOf(size) == IF size[1] >= size[2] THEN size[1] ELSE size[2]

\* As get_obj_actual_width_and_height, with the raw size kept when the object
\* is not height-longer.
get_obj_actual_width_and_height_raw(rect, flag) ==
    IF flag THEN <<MinOf(rect.size), MaxOf(rect.size)>> ELSE rect.size

\* Lines 72-91.
get_obj_actual_width_and_height(rect, flag) ==
    IF flag THEN <<MinOf(rect.size), MaxOf(rect.size)>>
    ELSE <<MaxOf(rect.size), MinOf(rect.size)>>

NoRect   == [center |-> <<0, 0>>, size |-> <<0, 0>>, angle |-> 0]
RectIdle == [called |-> "none", angle |-> 0, size |-> <<0, 0>>]

InitRect ==
    /\ min_area_rect \in Rects
    /\ is_height_longer_than_width \in BOOLEAN
    /\ rect_result = RectIdle

IdleRect ==
    /\ min_area_rect = NoRect
    /\ is_height_longer_than_width = FALSE
    /\ rect_result = RectIdle

\* A call of get_straigten_rotation_angle on the arguments.
CallGetStraigtenRotationAngle ==
    /\ rect_result.called = "none"
    /\ rect_result' = [RectIdle EXCEPT
            !.called = "angle",
            !.angle = get_straigten_rotation_angle(min_area_rect, is_height_longer_than_width)]
    /\ UNCHANGED <<min_area_rect, is_height_longer_than_width>>

\* A call of get_obj_actual_width_and_height on the arguments.
CallGetObjActualWidthAndHeight ==
    /\ rect_result.called = "none"
    /\ rect_result' = [RectIdle EXCEPT
            !.called = "size",
            !.size = get_obj_actual_width_and_height(min_area_rect, is_height_longer_than_width)]
    /\ UNCHANGED <<min_area_rect, is_height_longer_than_width>>

(***************************************************************************)
(* Wire ROI Extractor (tasks/wire_roi.py).                                 *)
(*                                                                         *)
(* The white-background frame is kept as what get_wire_roi crops from it   *)
(* at each rotation angle; a crop is kept as the set of the areas of the   *)
(* contours its threshold against white (lines 70-71) holds, {} being the  *)
(* all-white crop.                                                         *)
(***************************************************************************)

ACCEPTABLE_AREA_IN_WIRE_ROI == 125

AllWhiteCrop == {}
RoiCrops     == {AllWhiteCrop, {125}, {126}, {60, 300}}

\* As RetryAngle, with an angle of 0 counted among the positive ones.
RetryAngleZeroAsPositive(rotation_angle) ==
    IF rotation_angle >= 0 THEN rotation_angle - 90 ELSE rotation_angle + 90

\* Line 165: the angle of the second attempt.
RetryAngle(rotation_angle) ==
    IF rotation_angle > 0 THEN rotation_angle - 90 ELSE rotation_angle + 90

\* The angles get_straigten_rotation_angle can return for RectAngles, and
\* their retry angles.
RoiAngles == {-60, -45, -30, 0, 30, 45, 60, 90}

\* Lines 44-64: the crop of the frame rotated by rotation_angle.
get_wire_roi(frame_white_bg, rotation_angle) == frame_white_bg[rotation_angle]

\* The names utils/contour_utils.py defines.
ContourUtilsAttributes ==
    {"filter_out_small_contours", "filter_for_largest_contour",
     "get_contour_center_x_position", "get_contour_center_y_position",
     "sort_contours_by_axis"}

\* Lines 67-73. Line 73 calls contour_utils.has_contour_of_size, a name the
\* module contour_utils does not define: the attribute lookup raises
\* AttributeError for every crop. value is read only when raised is FALSE.
is_valid_wire_roi(wire_roi) ==
    [raised |-> "has_contour_of_size" \notin ContourUtilsAttributes, value |-> FALSE]

NoCrop == {-1}

\* Lines 123-171. attempts lists the angles get_wire_roi was called with.
find_wire_roi(frame_white_bg, connector_rect, flag) ==
    LET rotation_angle == get_straigten_rotation_angle(connector_rect, flag)
        first          == get_wire_roi(frame_white_bg, rotation_angle)
        valid          == is_valid_wire_roi(first)
    IN  IF valid.raised
        THEN [raised |-> TRUE, attempts |-> <<rotation_angle>>, wire_roi |-> NoCrop]
        ELSE IF ~valid.value
        THEN [raised |-> FALSE,
              attempts |-> <<rotation_angle, RetryAngle(rotation_angle)>>,
              wire_roi |-> get_wire_roi(frame_white_bg, RetryAngle(rotation_angle))]
        ELSE [raised |-> FALSE, attempts |-> <<rotation_angle>>, wire_roi |-> first]

RoiIdle == [op |-> "none", crop |-> NoCrop, raised |-> FALSE, value |-> FALSE,
            attempts |-> <<>>, wire_roi |-> NoCrop]

InitRoi ==
    /\ roi_connector_rect \in {r \in Rects : r.center = <<200, 150>>}
    /\ roi_flag \in BOOLEAN
    /\ \E c1 \in RoiCrops, c2 \in RoiCrops :
          LET a == get_straigten_rotation_angle(roi_connector_rect, roi_flag)
          IN  roi_frame = [r \in RoiAngles |-> IF r = a THEN c1 ELSE c2]
    /\ roi_call = RoiIdle

IdleRoi ==
    /\ roi_connector_rect = NoRect
    /\ roi_flag = FALSE
    /\ roi_frame = [r \in RoiAngles |-> AllWhiteCrop]
    /\ roi_call = RoiIdle

\* A call of is_valid_wire_roi on one of the crops of the frame.
CallIsValidWireRoi ==
    /\ roi_call.op = "none"
    /\ \E a \in RoiAngles :
          LET r == is_valid_wire_roi(roi_frame[a])
          IN  roi_call' = [RoiIdle EXCEPT !.op = "is_valid_wire_roi", !.crop = roi_frame[a],
                                          !.raised = r.raised, !.value = r.value]
    /\ UNCHANGED <<roi_frame, roi_connector_rect, roi_flag>>

\* A call of find_wire_roi on the frame and the connector's rectangle.
CallFindWireRoi ==
    /\ roi_call.op = "none"
    /\ LET r == find_wire_roi(roi_frame, roi_connector_rect, roi_flag)
       IN  roi_call' = [RoiIdle EXCEPT !.op = "find_wire_roi", !.raised = r.raised,
                                       !.attempts = r.attempts, !.wire_roi = r.wire_roi]
    /\ UNCHANGED <<roi_frame, roi_connector_rect, roi_flag>>

(***************************************************************************)
(* Wire Segmenter (tasks/wires.py).                                        *)
(*                                                                         *)
(* The watershed labelling of the padded ROI (line 93) is kept as a        *)
(* function from the labels present in it to the external contours of the  *)
(* label's mask, in the order cv2.findContours lists them. A contour is    *)
(* kept as the label whose mask it bounds, the centre (cx, cy) of its      *)
(* cv2.minAreaRect and its area; the rectangles have positive sides.       *)
(* Label 1 is the background and label -1 the watershed outline.           *)
(***************************************************************************)

MaxWires == 2

OutlineLabel    == -1
BackgroundLabel == 1
WireLabels      == 2 .. (MaxWires + 1)

WireShapes ==
    {[cx |-> 10, cy |-> 9, area |-> 50], [cx |-> 20, cy |-> 5, area |-> 80],
     [cx |-> 10, cy |-> 5, area |-> 80], [cx |-> 20, cy |-> 9, area |-> 50]}
OutlineShape    == [cx |-> 15, cy |-> 7, area |-> 40]
BackgroundShape == [cx |-> 15, cy |-> 7, area |-> 900]

\* The contour of the given shape in the mask of the label.
ContourIn(label, shape) ==
    [label |-> label, cx |-> shape.cx, cy |-> shape.cy, area |-> shape.area]

\* Line 115: what cv2.findContours can list for the mask of one label.
ContoursOfLabel(label) ==
    IF label = OutlineLabel THEN {<<ContourIn(label, OutlineShape)>>}
    ELSE IF label = BackgroundLabel THEN {<<ContourIn(label, BackgroundShape)>>}
    ELSE {<<ContourIn(label, c)>> : c \in WireShapes}
         \cup {<<ContourIn(label, c), ContourIn(label, d)>> : c \in WireShapes, d \in WireShapes}

NoLabelling == [l \in {} |-> <<>>]

\* The labellings in which some of the given labels are present.
RECURSIVE LabellingsOver(_)
LabellingsOver(labels) ==
    IF labels = {} THEN {NoLabelling}
    ELSE LET l    == CHOOSE x \in labels : TRUE
             rest == LabellingsOver(labels \ {l})
         IN  rest \cup {(l :> c) @@ w : w \in rest, c \in ContoursOfLabel(l)}

WatershedLabellings == LabellingsOver({OutlineLabel, BackgroundLabel} \cup WireLabels)

\* Line 116: max(contours, key=cv2.contourArea), the first of the largest.
LargestContour(contours) ==
    contours[CHOOSE i \in DOMAIN contours :
                 /\ \A j \in DOMAIN contours : contours[j].area <= contours[i].area
                 /\ \A j \in 1 .. (i - 1) : contours[j].area < contours[i].area]

\* Lines 57-72: the key of the sort.
get_contour_center_x_position(contour) == contour.cx
get_contour_center_y_position(contour) == contour.cy

\* Lines 81-84: sorted(contours, key=...), a stable ascending sort, by the
\* x of the centre when by_x_axis and by its y otherwise.
sorted_by_center(contours, by_x_axis) ==
    LET Key(c)   == IF by_x_axis THEN get_contour_center_x_position(c)
                    ELSE get_contour_center_y_position(c)
        Place(i) == 1 + Cardinality({j \in DOMAIN contours :
                            \/ Key(contours[j]) < Key(contours[i])
                            \/ Key(contours[j]) = Key(contours[i]) /\ j < i})
    IN  [k \in DOMAIN contours |-> contours[CHOOSE i \in DOMAIN contours : Place(i) = k]]

\* As sort_contours_by_axis, sorting by the y axis whatever by_x_axis says.
sort_contours_by_y_axis(contours, by_x_axis) == sorted_by_center(contours, FALSE)

\* Lines 75-84.
sort_contours_by_axis(contours, by_x_axis) == sorted_by_center(contours, by_x_axis)

\* As SkipsLabel, with the background label let through.
SkipsLabelBelowOne(label) == label < 1

\* Lines 104-105: the labels the loop passes over.
SkipsLabel(label) == label <= 1

\* Lines 102-118: the loop over np.unique(watershed_labels), ascending, from
\* the labels still to visit; [raised, wire_contours]. max() of an empty
\* sequence (line 116) raises ValueError.
RECURSIVE WireContoursOf(_, _, _)
WireContoursOf(labelling, to_visit, wire_contours) ==
    IF to_visit = {} THEN [raised |-> FALSE, wire_contours |-> wire_contours]
    ELSE LET label == CHOOSE l \in to_visit : \A m \in to_visit : l <= m
             rest  == to_visit \ {label}
         IN  IF SkipsLabel(label) THEN WireContoursOf(labelling, rest, wire_contours)
             ELSE IF labelling[label] = <<>>
             THEN [raised |-> TRUE, wire_contours |-> wire_contours]
             ELSE WireContoursOf(labelling, rest,
                      Append(wire_contours, LargestContour(labelling[label])))

\* Lines 21-46: the crop of the padded ROI around the contour's rectangle.
get_wire_from_contour(wire_contour) ==
    [label |-> wire_contour.label, center |-> <<wire_contour.cx, wire_contour.cy>>]

\* Lines 84-126, from the watershed labelling on.
find_wires(labelling) ==
    LET found  == WireContoursOf(labelling, DOMAIN labelling, <<>>)
        sorted == sort_contours_by_axis(found.wire_contours, TRUE)
    IN  IF found.raised THEN [raised |-> TRUE, wires |-> <<>>]
        ELSE [raised |-> FALSE,
              wires |-> [i \in DOMAIN sorted |-> get_wire_from_contour(sorted[i])]]

WiresIdle   == [called |-> FALSE, raised |-> FALSE, wires |-> <<>>]

InitWires ==
    /\ watershed_labels \in WatershedLabellings
    /\ wires_result = WiresIdle

IdleWires ==
    /\ watershed_labels = NoLabelling
    /\ wires_result = WiresIdle

\* A call of find_wires on an ROI with the given watershed labelling.
CallFindWires ==
    /\ ~wires_result.called
    /\ LET r == find_wires(watershed_labels)
       IN  wires_result' = [called |-> TRUE, raised |-> r.raised, wires |-> r.wires]
    /\ UNCHANGED watershed_labels

(***************************************************************************)
(* Thresholder (tasks/preprocess.py, threshold_with_inRange).              *)
(*                                                                         *)
(* The HSV frame is kept as a sequence of regions of one colour each that  *)
(* do not touch: a region carries its (H, S, V) and its area in pixels.    *)
(* The background reference is kept as the set of the V values of its      *)
(* pixels. cv2.COLOR_BGR2HSV gives H in 0..179 and S, V in 0..255.         *)
(***************************************************************************)

MaxRegions == 2

DEFAULT_LOWEST_V_VALUE == 150

HueSatValues    == {<<0, 0>>, <<179, 255>>}
FrameVValues    == {149, 150, 200, 255}
BgVValues       == {100, 150, 200, 255}
RegionAreas     == {1999, 2000}
Regions         == [hs : HueSatValues, v : FrameVValues, area : RegionAreas]
HsvFrames       == UNION {[1 .. n -> Regions] : n \in 1 .. MaxRegions}
BgReferences    == (SUBSET BgVValues) \ {{}}

\* Line 44: int(np.min(bg_img_hsv[:, :, 2])).
MinV(bg) == CHOOSE v \in bg : \A w \in bg : v <= w

\* As LowestVValue, without the floor of line 45.
LowestVValueUnfloored(bg) == MinV(bg)

\* Lines 44-45.
LowestVValue(bg) ==
    IF DEFAULT_LOWEST_V_VALUE >= MinV(bg)
    THEN DEFAULT_LOWEST_V_VALUE ELSE MinV(bg)

\* cv2.inRange on one pixel: 255 when every channel lies within the bounds.
inRange(hsv, lower, upper) ==
    IF \A k \in 1 .. 3 : lower[k] <= hsv[k] /\ hsv[k] <= upper[k] THEN 255 ELSE 0

\* cv2.bitwise_not on one 8-bit pixel.
bitwise_not(x) == 255 - x

\* Lines 48-51 on one pixel.
ThreshPixel(hsv, lowest_v_value) ==
    bitwise_not(inRange(hsv, <<0, 0, lowest_v_value>>, <<180, 255, 255>>))

HsvOf(region) == <<region.hs[1], region.hs[2], region.v>>

\* The mask of lines 48-51 as a set of blobs: one blob per foreground region.
ThreshMask(frame, lowest_v_value) ==
    {[id |-> i, inside |-> 0, area |-> frame[i].area, core |-> 0, eroded |-> FALSE] :
        i \in {j \in DOMAIN frame : ThreshPixel(HsvOf(frame[j]), lowest_v_value) = 255}}

\* Lines 32-54. pixels is thresh_img after line 51, region by region.
threshold_with_inRange(frame, bg) ==
    LET lowest_v_value == LowestVValue(bg)
    IN  [lowest_v_value |-> lowest_v_value,
         pixels   |-> [i \in DOMAIN frame |-> ThreshPixel(HsvOf(frame[i]), lowest_v_value)],
         returned |-> filter_out_small_contours(ThreshMask(frame, lowest_v_value),
                                                MINIMUM_VALID_CONTOUR_AREA)]

NoFrame    == <<>>
ThreshIdle == [called |-> FALSE, lowest_v_value |-> 0, pixels |-> <<>>, returned |-> BlackImage]

InitThresh ==
    /\ frame_hsv \in HsvFrames
    /\ bg_img_hsv \in BgReferences
    /\ inrange_result = ThreshIdle

IdleThresh ==
    /\ frame_hsv = NoFrame
    /\ bg_img_hsv = {}
    /\ inrange_result = ThreshIdle

\* A call of threshold_with_inRange on the frame and the background reference.
CallThresholdWithInRange ==
    /\ ~inrange_result.called
    /\ LET r == threshold_with_inRange(frame_hsv, bg_img_hsv)
       IN  inrange_result' = [called |-> TRUE, lowest_v_value |-> r.lowest_v_value,
                              pixels |-> r.pixels, returned |-> r.returned]
    /\ UNCHANGED <<frame_hsv, bg_img_hsv>>

(***************************************************************************)
(* Frame source (tools/video_stream.py, class PiCameraStream).             *)
(*                                                                         *)
(* Frames are numbered in the order in which capture_stream delivers them. *)
(* The capture threads are the threads start() launches on __run; the      *)
(* readers are the threads that call read(). queue.Queue makes each of     *)
(* get_nowait(), put() and get() atomic, and nothing else in the class is. *)
(* The attribute is_running is only annotated in the class body (line 30)  *)
(* and __init__ does not assign it: it does not exist on a fresh object,   *)
(* and reading it then raises AttributeError.                              *)
(***************************************************************************)

MaxFrames  == 2
MaxThreads == 1
MaxReaders == 1

Frames         == 1 .. MaxFrames
CaptureThreads == 1 .. MaxThreads
Readers        == 1 .. MaxReaders
NoFrameYet     == 0

\* The three states of the attribute is_running.
Unset   == "unset"
Running == "true"
Stopped == "false"

\* Line 39: queue.Queue(maxsize=1).
QUEUE_MAXSIZE == 1

\* As ReadRefuses, for a read() without the test of line 91.
ReadRefusesNever(flag) == FALSE

\* Line 91: "not self.is_running" holds for False and the lookup raises
\* AttributeError for a missing attribute; line 92 raises AttributeError too.
ReadRefuses(flag) == flag # Running

ThreadUnborn == [pc |-> "unborn", frame |-> NoFrameYet]
ReaderIdle   == [pc |-> "idle", last |-> "none", frame |-> NoFrameYet]
StartIdle    == [before |-> "none", outcome |-> "none"]
\* No stop() is being followed.
StopIdle     == [pending |-> FALSE, threads |-> 0, open |-> FALSE, puts |-> 0, closes |-> 0]

\* The capture threads that are in __run.
ThreadsInRun ==
    {t \in DOMAIN capture_threads : capture_threads[t].pc \notin {"unborn", "done", "failed"}}

InitStream ==
    /\ is_running = Unset
    /\ frame_queue = <<>>
    /\ capture_threads = [t \in CaptureThreads |-> ThreadUnborn]
    /\ captured = 0
    /\ closes = 0
    /\ readers = [r \in Readers |-> ReaderIdle]
    /\ returned = {}
    /\ published = NoFrameYet
    /\ replaced = {}
    /\ start_call = StartIdle
    /\ after_stop = StopIdle

IdleStream == InitStream

\* A stream on which start() can launch one thread more.
RestartThreads == 1 .. (MaxThreads + 1)

InitRestart ==
    /\ is_running = Unset
    /\ frame_queue = <<>>
    /\ capture_threads = [t \in RestartThreads |-> ThreadUnborn]
    /\ captured = 0
    /\ closes = 0
    /\ readers = [r \in Readers |-> ReaderIdle]
    /\ returned = {}
    /\ published = NoFrameYet
    /\ replaced = {}
    /\ start_call = StartIdle
    /\ after_stop = StopIdle

\* Lines 52-59: start(). On a fresh object the test of line 55 raises
\* AttributeError; while running it returns; else it sets the flag and
\* launches a thread on __run.
Start ==
    /\ \/ /\ is_running = Unset
          /\ start_call' = [before |-> is_running, outcome |-> "raised"]
          /\ UNCHANGED <<is_running, capture_threads, after_stop>>
       \/ /\ is_running = Running
          /\ start_call' = [before |-> is_running, outcome |-> "returned"]
          /\ UNCHANGED <<is_running, capture_threads, after_stop>>
       \/ /\ is_running = Stopped
          /\ \E t \in DOMAIN capture_threads :
                /\ capture_threads[t].pc = "unborn"
                /\ \A u \in 1 .. (t - 1) : capture_threads[u].pc # "unborn"
                /\ capture_threads' = [capture_threads EXCEPT ![t].pc = "next_frame"]
          /\ is_running' = Running
          /\ start_call' = [before |-> is_running, outcome |-> "launched"]
          /\ after_stop' = StopIdle
    /\ UNCHANGED <<frame_queue, captured, closes, readers, returned, published, replaced>>

\* Lines 85-87: stop(). after_stop notes what the stream was like when a
\* running stream was stopped, and counts what its threads do from then on.
Stop ==
    /\ is_running # Stopped
    /\ is_running' = Stopped
    /\ after_stop' = IF is_running = Running
                     THEN [pending |-> TRUE, threads |-> Cardinality(ThreadsInRun),
                           open |-> (closes = 0), puts |-> 0, closes |-> 0]
                     ELSE after_stop
    /\ UNCHANGED <<frame_queue, capture_threads, captured, closes, readers, returned,
                   published, replaced, start_call>>

\* Line 69, the call: the for statement calls next() on capture_stream, the
\* generator of camera.capture_continuous, shared by all capture threads.
\* The call raises in the thread when the camera was closed by __shutdown,
\* and when another thread is inside the generator (ValueError: generator
\* already executing); else the thread waits in it for the camera's frame.
CaptureBegin(t) ==
    /\ capture_threads[t].pc = "next_frame"
    /\ capture_threads' = [capture_threads EXCEPT ![t].pc =
          IF closes > 0 \/ \E u \in DOMAIN capture_threads : capture_threads[u].pc = "in_next"
          THEN "failed"
          ELSE "in_next"]
    /\ UNCHANGED <<is_running, frame_queue, captured, closes, readers, returned, published,
                   replaced, start_call, after_stop>>

\* Line 69, the return: the capture stream hands the next frame to thread t.
\* When the camera was closed meanwhile the thread ends in an exception.
CaptureFrame(t) ==
    /\ capture_threads[t].pc = "in_next"
    /\ IF closes > 0
       THEN /\ capture_threads' = [capture_threads EXCEPT ![t].pc = "failed"]
            /\ UNCHANGED captured
       ELSE /\ captured < MaxFrames
            /\ captured' = captured + 1
            /\ capture_threads' = [capture_threads EXCEPT
                                      ![t] = [pc |-> "get_nowait", frame |-> captured + 1]]
    /\ UNCHANGED <<is_running, frame_queue, closes, readers, returned, published,
                   replaced, start_call, after_stop>>

\* As GetNowait, with the unread frame left in the queue.
GetNowaitKeepsFrame(t) ==
    /\ capture_threads[t].pc = "get_nowait"
    /\ capture_threads' = [capture_threads EXCEPT ![t].pc = "put"]
    /\ UNCHANGED <<is_running, frame_queue, replaced, captured, closes, readers, returned,
                   published, start_call, after_stop>>

\* Lines 71-74: get_nowait() removes the unread frame, or raises queue.Empty,
\* which is passed over.
GetNowait(t) ==
    /\ capture_threads[t].pc = "get_nowait"
    /\ IF frame_queue # <<>>
       THEN /\ frame_queue' = Tail(frame_queue)
            /\ replaced' = replaced \cup {Head(frame_queue)}
       ELSE UNCHANGED <<frame_queue, replaced>>
    /\ capture_threads' = [capture_threads EXCEPT ![t].pc = "put"]
    /\ UNCHANGED <<is_running, captured, closes, readers, returned, published, start_call,
                   after_stop>>

\* Lines 75-79: put() blocks while the queue is full, then adds the frame;
\* the thread's frame is not read again before line 69 rebinds it.
Put(t) ==
    /\ capture_threads[t].pc = "put"
    /\ Len(frame_queue) < QUEUE_MAXSIZE
    /\ frame_queue' = Append(frame_queue, capture_threads[t].frame)
    /\ published' = capture_threads[t].frame
    /\ capture_threads' = [capture_threads EXCEPT ![t] = [pc |-> "check", frame |-> NoFrameYet]]
    /\ after_stop' = IF after_stop.pending
                     THEN [after_stop EXCEPT !.puts = @ + 1]
                     ELSE after_stop
    /\ UNCHANGED <<is_running, captured, closes, readers, returned, replaced, start_call>>

\* Lines 81-83: the thread closes the raw capture and the camera and ends
\* once the flag is false, else it goes for the next frame.
CheckRunning(t) ==
    /\ capture_threads[t].pc = "check"
    /\ IF is_running # Running
       THEN /\ closes' = closes + 1
            /\ capture_threads' = [capture_threads EXCEPT ![t].pc = "done"]
            /\ after_stop' = IF after_stop.pending
                             THEN [after_stop EXCEPT !.closes = @ + 1]
                             ELSE after_stop
       ELSE /\ capture_threads' = [capture_threads EXCEPT ![t].pc = "next_frame"]
            /\ UNCHANGED <<closes, after_stop>>
    /\ UNCHANGED <<is_running, frame_queue, captured, readers, returned, published,
                   replaced, start_call>>

\* Lines 91-92: read() tests the flag, and raises or goes on to get().
ReadBegin(r) ==
    /\ readers[r].pc = "idle"
    /\ readers' = [readers EXCEPT ![r] =
                      IF ReadRefuses(is_running)
                      THEN [pc |-> "idle", last |-> "raised", frame |-> NoFrameYet]
                      ELSE [pc |-> "get", last |-> "none", frame |-> NoFrameYet]]
    /\ UNCHANGED <<is_running, frame_queue, capture_threads, captured, closes, returned,
                   published, replaced, start_call, after_stop>>

\* Line 94: get() blocks while the queue is empty, then removes and returns
\* its frame.
ReadGet(r) ==
    /\ readers[r].pc = "get"
    /\ frame_queue # <<>>
    /\ frame_queue' = Tail(frame_queue)
    /\ readers' = [readers EXCEPT ![r] =
                      [pc |-> "idle", last |-> "returned", frame |-> Head(frame_queue)]]
    /\ returned' = returned \cup {Head(frame_queue)}
    /\ UNCHANGED <<is_running, capture_threads, captured, closes, published, replaced,
                   start_call, after_stop>>

\* Line 69, the return, for a camera that never runs out of frames: the
\* frames after frame MaxFrames all carry the number MaxFrames.
CaptureFrameEndless(t) ==
    /\ capture_threads[t].pc = "in_next"
    /\ IF closes > 0
       THEN /\ capture_threads' = [capture_threads EXCEPT ![t].pc = "failed"]
            /\ UNCHANGED captured
       ELSE LET number == IF captured < MaxFrames THEN captured + 1 ELSE MaxFrames
            IN  /\ captured' = number
                /\ capture_threads' = [capture_threads EXCEPT
                                          ![t] = [pc |-> "get_nowait", frame |-> number]]
    /\ UNCHANGED <<is_running, frame_queue, closes, readers, returned, published,
                   replaced, start_call, after_stop>>

\* A step of capture thread t in __run, lines 66-83.
RunStep(t) ==
    CaptureBegin(t) \/ CaptureFrameEndless(t) \/ GetNowait(t) \/ Put(t) \/ CheckRunning(t)

\* The scheduling the liveness of read() rests on: a capture thread that can
\* take a step takes one, and a reader waiting in get() gets the frame if
\* frames keep being put (put() wakes the waiter, and the capture thread then
\* waits for the camera's next frame).
FairStream ==
    /\ \A t \in CaptureThreads : WF_streamVars(RunStep(t))
    /\ \A r \in Readers : SF_streamVars(ReadGet(r))

\* The same scheduling for the threads of RestartThreads.
FairRestart ==
    /\ \A t \in RestartThreads : WF_streamVars(RunStep(t))
    /\ \A r \in Readers : SF_streamVars(ReadGet(r))

(***************************************************************************)
(* The retry flip of find_wire_roi (tasks/wire_roi.py:164-166), taken on   *)
(* its own: rotation_angle is what the Orientation Solver returned, a      *)
(* whole number of degrees strictly between -90 and 90, and line 165       *)
(* replaces it by the angle of the second attempt.                         *)
(***************************************************************************)

StraightenAngles == { a \in -90 .. 90 : -90 < a /\ a < 90 }

InitFlip ==
    /\ straighten_angle \in StraightenAngles
    /\ retry_angles = <<>>

IdleFlip ==
    /\ straighten_angle = 0
    /\ retry_angles = <<>>

\* The angle line 165 is applied to: the solver's, or the last flipped one.
CurrentRotationAngle ==
    IF retry_angles = <<>> THEN straighten_angle ELSE retry_angles[Len(retry_angles)]

\* Line 165, applied to its own result once more to give the flip of the flip.
FlipRotationAngle ==
    /\ Len(retry_angles) < 2
    /\ retry_angles' = Append(retry_angles, RetryAngle(CurrentRotationAngle))
    /\ UNCHANGED straighten_angle

(***************************************************************************)
(* The workflow (stages/): InitializeStage, BgCaptureStage,                *)
(* ReferenceCaptureStage and CheckCaptureStage.                            *)
(*                                                                         *)
(* Each stage is a singleton whose run() calls the next stage's run() and  *)
(* never returns; control says at which cv2.waitKey the control thread     *)
(* stands. The frames are numbered in the order in which a stage keeps     *)
(* them (a background capture, a reference capture); the frames a loop     *)
(* reads and drops carry no number. What a loop body computes from a frame *)
(* with the pipeline of tasks/ is taken over every value its calls can     *)
(* return, and the exception.                                              *)
(***************************************************************************)

\* The most frames the stages keep in a run of the program.
MaxShots == 4

\* What cv2.waitKey returns: the keys of keys.py, another key, and -1 ("none")
\* when a timed wait ends with no key.
Q_KEY     == "q"
ESC_KEY   == "esc"
Y_KEY     == "y"
N_KEY     == "n"
R_KEY     == "r"
ENTER_KEY == "enter"
QUIT_KEYS == {Q_KEY, ESC_KEY}
ACCEPTABLE_KEYS_FOR_INITIALIZE_STAGE == {Y_KEY, N_KEY, Q_KEY, ESC_KEY}
ACCEPTABLE_KEYS_FOR_ACCEPT_CAPTURED_BG_FRAME == {Y_KEY, N_KEY, Q_KEY, ESC_KEY}
ACCEPTABLE_KEYS_FOR_ACCEPT_CAPTURED_REFERENCE_WIRE_HOUSING == {Y_KEY, N_KEY, Q_KEY, ESC_KEY}
ACCEPTABLE_KEYS_FOR_CHECK_CAPTURE_STAGE == {N_KEY, R_KEY, Q_KEY, ESC_KEY}
PressedKeys == {Q_KEY, ESC_KEY, Y_KEY, N_KEY, R_KEY, ENTER_KEY, "x"}
TimedKeys   == PressedKeys \cup {"none"}

None     == [none |-> TRUE]
NoConfig == [unset |-> TRUE]

UserSettingConfig(height_greater, with_bg) ==
    [is_connector_height_greater_than_width |-> height_greater,
     do_threshold_with_bg |-> with_bg]

\* The n-th frame a stage kept, and the colour sequence computed from a kept
\* frame: the frame and the number of wires the segmenter found in it.
KeptFrame(n) == [shot |-> n]
ColorSequence(frame, wires) == [frame |-> frame, wires |-> wires]

\* What one pass over a frame gives a capture loop: the camera's read()
\* raises, the pipeline raises, no connector candidate is in view, or a
\* colour sequence of so many wires is found.
FrameOutcomes ==
    {[kind |-> k, wires |-> 0] : k \in {"read_raised", "raised", "no_candidate"}}
        \cup {[kind |-> "found", wires |-> w] : w \in 0 .. MaxWires}

\* The loops "while input_key not in acceptable_keys" (initialize_stage.py
\* 40-42, bg_capture_stage.py 77-79, reference_capture_stage.py 121-123,
\* check_stage.py 68-105).
WaitsForAnotherKey(key, acceptable_keys) == key \notin acceptable_keys

\* __get_frame_threshold (reference_capture_stage.py 52-71, check_stage.py
\* 44-63): with do_threshold_with_bg set, cv2.GaussianBlur(self._bg_img, ...)
\* raises on a _bg_img that is None.
GetFrameThresholdRaises(stage) ==
    stage.user_config.do_threshold_with_bg /\ stage.bg_img = None

WorkflowIdle ==
    /\ control = "height_config"
    /\ input_key = "none"
    /\ initialize_stage = [is_connector_height_greater_than_width |-> FALSE]
    /\ bg_capture_stage = [user_config |-> NoConfig, has_chosen_bg_img |-> FALSE,
                           captured_frame |-> None]
    /\ reference_capture_stage = [user_config |-> NoConfig, bg_img |-> None,
                                  has_reference_color_sequence |-> FALSE,
                                  reference_color_sequence |-> None]
    /\ check_capture_stage = [user_config |-> NoConfig, bg_img |-> None,
                              reference_color_sequence |-> None]
    /\ shots = 0
    /\ user_answers = [accepted_bg |-> {}, rejected_bg |-> {}, accepted_reference |-> None]

\* InitializeStage.run() is entered on fresh stages.
InitWorkflow == WorkflowIdle

\* Stage.quit(): sys.exit(1), which no stage catches.
Quit ==
    /\ control' = "exited"
    /\ UNCHANGED <<initialize_stage, bg_capture_stage, reference_capture_stage,
                   check_capture_stage, shots, user_answers>>

\* An exception leaves every run() on the stack.
Raise ==
    /\ control' = "raised"
    /\ UNCHANGED <<initialize_stage, bg_capture_stage, reference_capture_stage,
                   check_capture_stage, shots, user_answers>>

\* The wait goes on: the loop shows the image again and waits.
WaitOn ==
    UNCHANGED <<control, initialize_stage, bg_capture_stage, reference_capture_stage,
                check_capture_stage, shots, user_answers>>

\* bg_capture_stage.py 89-96 and reference_capture_stage.py 145-148, 151-155:
\* ReferenceCaptureStage is configured with the background image and the
\* user's setting and run up to its capture loop.
RunReferenceCaptureStage(bg_img, user_config) ==
    /\ reference_capture_stage' =
          [user_config |-> user_config, bg_img |-> bg_img,
           has_reference_color_sequence |-> FALSE, reference_color_sequence |-> None]
    /\ control' = "capture_reference"

\* initialize_stage.py 81-88 and bg_capture_stage.py 98-114: BgCaptureStage
\* is configured and run up to its capture loop, or through to the
\* reference capture stage when no background image is asked for.
RunBgCaptureStage(user_config) ==
    /\ bg_capture_stage' = [user_config |-> user_config, has_chosen_bg_img |-> FALSE,
                            captured_frame |-> None]
    /\ IF user_config.do_threshold_with_bg
       THEN /\ control' = "capture_bg"
            /\ UNCHANGED reference_capture_stage
       ELSE RunReferenceCaptureStage(None, user_config)

\* initialize_stage.py 46-60, 96: the first prompt.
AnswerHeightConfig(key) ==
    /\ control = "height_config"
    /\ input_key' = key
    /\ IF WaitsForAnotherKey(key, ACCEPTABLE_KEYS_FOR_INITIALIZE_STAGE) THEN WaitOn
       ELSE IF key \in QUIT_KEYS THEN Quit
       ELSE /\ initialize_stage' = [is_connector_height_greater_than_width |-> (key = Y_KEY)]
            /\ control' = "bg_config"
            /\ UNCHANGED <<bg_capture_stage, reference_capture_stage, check_capture_stage,
                           shots, user_answers>>

\* initialize_stage.py 62-79, 97-103: the second prompt, then the next stage.
AnswerDoThresholdWithBgConfig(key) ==
    /\ control = "bg_config"
    /\ input_key' = key
    /\ IF WaitsForAnotherKey(key, ACCEPTABLE_KEYS_FOR_INITIALIZE_STAGE) THEN WaitOn
       ELSE IF key \in QUIT_KEYS THEN Quit
       ELSE /\ RunBgCaptureStage(
                  UserSettingConfig(initialize_stage.is_connector_height_greater_than_width,
                                    key = Y_KEY))
            /\ UNCHANGED <<initialize_stage, check_capture_stage, shots, user_answers>>

\* bg_capture_stage.py 52-70, 110: one pass of __get_capture_frame's loop.
CaptureBgFrame(read_raises, key) ==
    /\ control = "capture_bg"
    /\ IF read_raises THEN Raise /\ UNCHANGED input_key
       ELSE /\ input_key' = key
            /\ IF key \in QUIT_KEYS THEN Quit
               ELSE IF key = ENTER_KEY
               THEN /\ shots < MaxShots
                    /\ shots' = shots + 1
                    /\ bg_capture_stage' =
                          [bg_capture_stage EXCEPT !.captured_frame = KeptFrame(shots + 1)]
                    /\ control' = "accept_bg"
                    /\ UNCHANGED <<initialize_stage, reference_capture_stage,
                                   check_capture_stage, user_answers>>
               ELSE WaitOn

\* As HasAccepted, for a stage that takes both answers as a yes.
HasAcceptedWhateverAnswer(key) == TRUE

\* bg_capture_stage.py 84-87 and reference_capture_stage.py 128-131: y is a
\* yes and n a no.
HasAccepted(key) == key = Y_KEY

\* bg_capture_stage.py 72-87, 109-114: the accept prompt; a yes runs the
\* next stage with the captured frame, a no goes back to capturing.
AcceptCapturedBgFrame(key) ==
    /\ control = "accept_bg"
    /\ input_key' = key
    /\ IF WaitsForAnotherKey(key, ACCEPTABLE_KEYS_FOR_ACCEPT_CAPTURED_BG_FRAME) THEN WaitOn
       ELSE IF key \in QUIT_KEYS THEN Quit
       ELSE /\ user_answers' =
                  IF key = Y_KEY
                  THEN [user_answers EXCEPT !.accepted_bg = @ \cup {bg_capture_stage.captured_frame}]
                  ELSE [user_answers EXCEPT !.rejected_bg = @ \cup {bg_capture_stage.captured_frame}]
            /\ bg_capture_stage' = [bg_capture_stage EXCEPT !.has_chosen_bg_img = HasAccepted(key)]
            /\ IF HasAccepted(key)
               THEN RunReferenceCaptureStage(bg_capture_stage.captured_frame,
                                             bg_capture_stage.user_config)
               ELSE /\ control' = "capture_bg"
                    /\ UNCHANGED reference_capture_stage
            /\ UNCHANGED <<initialize_stage, check_capture_stage, shots>>

\* reference_capture_stage.py 73-114, 154: one pass of
\* __get_reference_color_sequence's loop.
CaptureReference(outcome, key) ==
    /\ control = "capture_reference"
    /\ IF \/ outcome.kind \in {"read_raised", "raised"}
          \/ GetFrameThresholdRaises(reference_capture_stage)
       THEN Raise /\ UNCHANGED input_key
       ELSE IF outcome.kind = "found"
       THEN /\ shots < MaxShots
            /\ shots' = shots + 1
            /\ reference_capture_stage' =
                  [reference_capture_stage EXCEPT
                      !.reference_color_sequence = ColorSequence(KeptFrame(shots + 1), outcome.wires)]
            /\ control' = "accept_reference"
            /\ UNCHANGED <<input_key, initialize_stage, bg_capture_stage,
                           check_capture_stage, user_answers>>
       ELSE /\ input_key' = key
            /\ IF key \in QUIT_KEYS THEN Quit ELSE WaitOn

\* As IsNotFound, for a run() without the test of line 160.
IsNotFoundNever(reference_color_sequence) == FALSE

\* reference_capture_stage.py 160: "not reference_color_sequence" holds for
\* None and for the empty list.
IsNotFound(reference_color_sequence) ==
    reference_color_sequence = None \/ reference_color_sequence.wires = 0

\* reference_capture_stage.py 116-162: the accept prompt; a yes ends the
\* loop of run(), which raises on no sequence and else configures and runs
\* CheckCaptureStage; a no goes back to capturing.
AcceptReferenceColorSequence(key) ==
    /\ control = "accept_reference"
    /\ input_key' = key
    /\ IF WaitsForAnotherKey(key, ACCEPTABLE_KEYS_FOR_ACCEPT_CAPTURED_REFERENCE_WIRE_HOUSING)
       THEN WaitOn
       ELSE IF key \in QUIT_KEYS THEN Quit
       ELSE /\ reference_capture_stage' =
                  [reference_capture_stage EXCEPT
                      !.has_reference_color_sequence = HasAccepted(key)]
            /\ user_answers' =
                  IF key = Y_KEY
                  THEN [user_answers EXCEPT
                           !.accepted_reference = reference_capture_stage.reference_color_sequence]
                  ELSE user_answers
            /\ IF ~HasAccepted(key)
               THEN control' = "capture_reference" /\ UNCHANGED check_capture_stage
               ELSE IF IsNotFound(reference_capture_stage.reference_color_sequence)
               THEN control' = "raised" /\ UNCHANGED check_capture_stage
               ELSE /\ check_capture_stage' =
                          [user_config |-> reference_capture_stage.user_config,
                           bg_img |-> reference_capture_stage.bg_img,
                           reference_color_sequence |->
                               reference_capture_stage.reference_color_sequence]
                    /\ control' = "check"
            /\ UNCHANGED <<initialize_stage, bg_capture_stage, shots>>

\* As CheckStageTarget, with the two keys exchanged.
CheckStageTargetExchanged(key) ==
    IF key = R_KEY THEN "height_config" ELSE "capture_reference"

\* check_stage.py 114-120: r runs ReferenceCaptureStage, n runs
\* InitializeStage.
CheckStageTarget(key) ==
    IF key = R_KEY THEN "capture_reference" ELSE "height_config"

\* check_stage.py 65-120: one pass of __check_color_sequence's loop, and what
\* follows the loop when the key is an acceptable one.
CheckColorSequence(outcome, key) ==
    /\ control = "check"
    /\ IF \/ outcome.kind \in {"read_raised", "raised"}
          \/ GetFrameThresholdRaises(check_capture_stage)
       THEN Raise /\ UNCHANGED input_key
       ELSE /\ input_key' = key
            /\ IF WaitsForAnotherKey(key, ACCEPTABLE_KEYS_FOR_CHECK_CAPTURE_STAGE) THEN WaitOn
               ELSE IF key \in QUIT_KEYS THEN Quit
               ELSE /\ control' = CheckStageTarget(key)
                    /\ reference_capture_stage' =
                          IF CheckStageTarget(key) = "capture_reference"
                          THEN [reference_capture_stage EXCEPT
                                   !.has_reference_color_sequence = FALSE,
                                   !.reference_color_sequence = None]
                          ELSE reference_capture_stage
                    /\ UNCHANGED <<initialize_stage, bg_capture_stage, check_capture_stage,
                                   shots, user_answers>>

(***************************************************************************)
(* Specifications.                                                         *)
(***************************************************************************)

OtherThanColor == UNCHANGED <<labVars, contourVars, connectorVars, rectVars, roiVars, wiresVars, threshVars, streamVars, flipVars, workflowVars>>

OtherThanLab == UNCHANGED <<colorVars, contourVars, connectorVars, rectVars, roiVars, wiresVars, threshVars, streamVars, flipVars, workflowVars>>

OtherThanContour == UNCHANGED <<colorVars, labVars, connectorVars, rectVars, roiVars, wiresVars, threshVars, streamVars, flipVars, workflowVars>>

OtherThanConnector == UNCHANGED <<colorVars, labVars, contourVars, rectVars, roiVars, wiresVars, threshVars, streamVars, flipVars, workflowVars>>

OtherThanRect == UNCHANGED <<colorVars, labVars, contourVars, connectorVars, roiVars, wiresVars, threshVars, streamVars, flipVars, workflowVars>>

OtherThanRoi == UNCHANGED <<colorVars, labVars, contourVars, connectorVars, rectVars, wiresVars, threshVars, streamVars, flipVars, workflowVars>>

OtherThanWires == UNCHANGED <<colorVars, labVars, contourVars, connectorVars, rectVars, roiVars, threshVars, streamVars, flipVars, workflowVars>>

OtherThanThresh == UNCHANGED <<colorVars, labVars, contourVars, connectorVars, rectVars, roiVars, wiresVars, streamVars, flipVars, workflowVars>>

OtherThanStream == UNCHANGED <<colorVars, labVars, contourVars, connectorVars, rectVars, roiVars, wiresVars, threshVars, flipVars, workflowVars>>

OtherThanFlip == UNCHANGED <<colorVars, labVars, contourVars, connectorVars, rectVars, roiVars, wiresVars, threshVars, streamVars, workflowVars>>

OtherThanWorkflow == UNCHANGED <<colorVars, labVars, contourVars, connectorVars, rectVars, roiVars, wiresVars, threshVars, streamVars, flipVars>>

Init ==
    /\ InitColor
    /\ IdleLab
    /\ IdleContour
    /\ IdleConnector
    /\ IdleRect
    /\ IdleRoi
    /\ IdleWires
    /\ IdleThresh
    /\ IdleStream
    /\ IdleFlip
    /\ WorkflowIdle

Next ==
    \/ CallIsSameWireColor /\ OtherThanColor
    \/ CallIsSameColorSequence /\ OtherThanColor

Spec == Init /\ [][Next]_vars

InitSpecLab ==
    /\ IdleColor
    /\ InitLab
    /\ IdleContour
    /\ IdleConnector
    /\ IdleRect
    /\ IdleRoi
    /\ IdleWires
    /\ IdleThresh
    /\ IdleStream
    /\ IdleFlip
    /\ WorkflowIdle

NextLab ==
    \/ CallFindWireLabColor /\ OtherThanLab

SpecLab == InitSpecLab /\ [][NextLab]_vars

InitSpecContour ==
    /\ IdleColor
    /\ IdleLab
    /\ InitContour
    /\ IdleConnector
    /\ IdleRect
    /\ IdleRoi
    /\ IdleWires
    /\ IdleThresh
    /\ IdleStream
    /\ IdleFlip
    /\ WorkflowIdle

NextContour ==
    \/ CallFilterOutSmallContours /\ OtherThanContour
    \/ CallFilterForLargestContour /\ OtherThanContour

SpecContour == InitSpecContour /\ [][NextContour]_vars

InitSpecConnector ==
    /\ IdleColor
    /\ IdleLab
    /\ IdleContour
    /\ InitConnector
    /\ IdleRect
    /\ IdleRoi
    /\ IdleWires
    /\ IdleThresh
    /\ IdleStream
    /\ IdleFlip
    /\ WorkflowIdle

NextConnector ==
    \/ CallFindConnectorContour /\ OtherThanConnector
    \/ CheckStagePass /\ OtherThanConnector
    \/ ReferenceStagePass /\ OtherThanConnector
    \/ MainPass /\ OtherThanConnector

SpecConnector == InitSpecConnector /\ [][NextConnector]_vars

InitSpecRect ==
    /\ IdleColor
    /\ IdleLab
    /\ IdleContour
    /\ IdleConnector
    /\ InitRect
    /\ IdleRoi
    /\ IdleWires
    /\ IdleThresh
    /\ IdleStream
    /\ IdleFlip
    /\ WorkflowIdle

NextRect ==
    \/ CallGetStraigtenRotationAngle /\ OtherThanRect
    \/ CallGetObjActualWidthAndHeight /\ OtherThanRect

SpecRect == InitSpecRect /\ [][NextRect]_vars

InitSpecRoi ==
    /\ IdleColor
    /\ IdleLab
    /\ IdleContour
    /\ IdleConnector
    /\ IdleRect
    /\ InitRoi
    /\ IdleWires
    /\ IdleThresh
    /\ IdleStream
    /\ IdleFlip
    /\ WorkflowIdle

NextRoi ==
    \/ CallIsValidWireRoi /\ OtherThanRoi
    \/ CallFindWireRoi /\ OtherThanRoi

SpecRoi == InitSpecRoi /\ [][NextRoi]_vars

InitSpecWires ==
    /\ IdleColor
    /\ IdleLab
    /\ IdleContour
    /\ IdleConnector
    /\ IdleRect
    /\ IdleRoi
    /\ InitWires
    /\ IdleThresh
    /\ IdleStream
    /\ IdleFlip
    /\ WorkflowIdle

NextWires ==
    \/ CallFindWires /\ OtherThanWires

SpecWires == InitSpecWires /\ [][NextWires]_vars

InitSpecThresh ==
    /\ IdleColor
    /\ IdleLab
    /\ IdleContour
    /\ IdleConnector
    /\ IdleRect
    /\ IdleRoi
    /\ IdleWires
    /\ InitThresh
    /\ IdleStream
    /\ IdleFlip
    /\ WorkflowIdle

NextThresh ==
    \/ CallThresholdWithInRange /\ OtherThanThresh

SpecThresh == InitSpecThresh /\ [][NextThresh]_vars

InitSpecStream ==
    /\ IdleColor
    /\ IdleLab
    /\ IdleContour
    /\ IdleConnector
    /\ IdleRect
    /\ IdleRoi
    /\ IdleWires
    /\ IdleThresh
    /\ InitStream
    /\ IdleFlip
    /\ WorkflowIdle

NextStream ==
    \/ Start /\ OtherThanStream
    \/ Stop /\ OtherThanStream
    \/ (\E t \in CaptureThreads : CaptureBegin(t)) /\ OtherThanStream
    \/ (\E t \in CaptureThreads : CaptureFrame(t)) /\ OtherThanStream
    \/ (\E t \in CaptureThreads : GetNowait(t)) /\ OtherThanStream
    \/ (\E t \in CaptureThreads : Put(t)) /\ OtherThanStream
    \/ (\E t \in CaptureThreads : CheckRunning(t)) /\ OtherThanStream
    \/ (\E r \in Readers : ReadBegin(r)) /\ OtherThanStream
    \/ (\E r \in Readers : ReadGet(r)) /\ OtherThanStream

SpecStream == InitSpecStream /\ [][NextStream]_vars

NextStreamLive ==
    \/ Start /\ OtherThanStream
    \/ Stop /\ OtherThanStream
    \/ (\E t \in CaptureThreads : CaptureBegin(t)) /\ OtherThanStream
    \/ (\E t \in CaptureThreads : CaptureFrameEndless(t)) /\ OtherThanStream
    \/ (\E t \in CaptureThreads : GetNowait(t)) /\ OtherThanStream
    \/ (\E t \in CaptureThreads : Put(t)) /\ OtherThanStream
    \/ (\E t \in CaptureThreads : CheckRunning(t)) /\ OtherThanStream
    \/ (\E r \in Readers : ReadBegin(r)) /\ OtherThanStream
    \/ (\E r \in Readers : ReadGet(r)) /\ OtherThanStream

SpecStreamLive == InitSpecStream /\ [][NextStreamLive]_vars /\ FairStream

InitSpecRestart ==
    /\ IdleColor
    /\ IdleLab
    /\ IdleContour
    /\ IdleConnector
    /\ IdleRect
    /\ IdleRoi
    /\ IdleWires
    /\ IdleThresh
    /\ InitRestart
    /\ IdleFlip
    /\ WorkflowIdle

NextRestart ==
    \/ Start /\ OtherThanStream
    \/ Stop /\ OtherThanStream
    \/ (\E t \in RestartThreads : CaptureBegin(t)) /\ OtherThanStream
    \/ (\E t \in RestartThreads : CaptureFrame(t)) /\ OtherThanStream
    \/ (\E t \in RestartThreads : GetNowait(t)) /\ OtherThanStream
    \/ (\E t \in RestartThreads : Put(t)) /\ OtherThanStream
    \/ (\E t \in RestartThreads : CheckRunning(t)) /\ OtherThanStream
    \/ (\E r \in Readers : ReadBegin(r)) /\ OtherThanStream
    \/ (\E r \in Readers : ReadGet(r)) /\ OtherThanStream

SpecRestart == InitSpecRestart /\ [][NextRestart]_vars

NextRestartLive ==
    \/ Start /\ OtherThanStream
    \/ Stop /\ OtherThanStream
    \/ (\E t \in RestartThreads : CaptureBegin(t)) /\ OtherThanStream
    \/ (\E t \in RestartThreads : CaptureFrameEndless(t)) /\ OtherThanStream
    \/ (\E t \in RestartThreads : GetNowait(t)) /\ OtherThanStream
    \/ (\E t \in RestartThreads : Put(t)) /\ OtherThanStream
    \/ (\E t \in RestartThreads : CheckRunning(t)) /\ OtherThanStream
    \/ (\E r \in Readers : ReadBegin(r)) /\ OtherThanStream
    \/ (\E r \in Readers : ReadGet(r)) /\ OtherThanStream

SpecRestartLive == InitSpecRestart /\ [][NextRestartLive]_vars /\ FairRestart

InitSpecFlip ==
    /\ IdleColor
    /\ IdleLab
    /\ IdleContour
    /\ IdleConnector
    /\ IdleRect
    /\ IdleRoi
    /\ IdleWires
    /\ IdleThresh
    /\ IdleStream
    /\ InitFlip
    /\ WorkflowIdle

NextFlip ==
    \/ FlipRotationAngle /\ OtherThanFlip

SpecFlip == InitSpecFlip /\ [][NextFlip]_vars

InitSpecWorkflow ==
    /\ IdleColor
    /\ IdleLab
    /\ IdleContour
    /\ IdleConnector
    /\ IdleRect
    /\ IdleRoi
    /\ IdleWires
    /\ IdleThresh
    /\ IdleStream
    /\ IdleFlip
    /\ InitWorkflow

NextWorkflow ==
    \/ (\E key \in PressedKeys : AnswerHeightConfig(key)) /\ OtherThanWorkflow
    \/ (\E key \in PressedKeys : AnswerDoThresholdWithBgConfig(key)) /\ OtherThanWorkflow
    \/ (\E read_raises \in BOOLEAN, key \in TimedKeys : CaptureBgFrame(read_raises, key)) /\ OtherThanWorkflow
    \/ (\E key \in PressedKeys : AcceptCapturedBgFrame(key)) /\ OtherThanWorkflow
    \/ (\E outcome \in FrameOutcomes, key \in TimedKeys : CaptureReference(outcome, key)) /\ OtherThanWorkflow
    \/ (\E key \in PressedKeys : AcceptReferenceColorSequence(key)) /\ OtherThanWorkflow
    \/ (\E outcome \in FrameOutcomes, key \in TimedKeys : CheckColorSequence(outcome, key)) /\ OtherThanWorkflow

SpecWorkflow == InitSpecWorkflow /\ [][NextWorkflow]_vars

(***************************************************************************)
(* Properties of the Sequence Matcher (checked under Spec).                *)
(***************************************************************************)

SequenceCalled == matcher.op = "is_same_color_sequence"
WireColorCalled == matcher.op = "is_same_wire_color"

SomeUndefinedColor(colors) == \E i \in DOMAIN colors : ~IsDefinedColor(colors[i])

\* C1: is_same_color_sequence returns True exactly when the two sequences have
\* the same length and every positional pair is the same wire colour; for
\* sequences of different length it returns False without comparing any pair.
C1_SequenceMatchesIffLengthAndEveryPair ==
    SequenceCalled =>
        /\ matcher.returned <=>
              /\ Len(ref_wire_housing_colors) = Len(target_wire_housing_colors)
              /\ \A i \in 1..Len(ref_wire_housing_colors) :
                    is_same_wire_color(ref_wire_housing_colors[i],
                                       target_wire_housing_colors[i],
                                       acceptable_delta_e_threshold)
        /\ Len(ref_wire_housing_colors) # Len(target_wire_housing_colors)
              => ~matcher.returned /\ matcher.compared = 0

\* Two sequences of different length whose common prefix matches: rejected
\* with no pair compared.
C1_Witness ==
    /\ SequenceCalled
    /\ Len(ref_wire_housing_colors) = 1
    /\ Len(target_wire_housing_colors) = 2
    /\ ref_wire_housing_colors[1] = RedLab
    /\ target_wire_housing_colors[1] = RedLab
    /\ acceptable_delta_e_threshold = DEFAULT_ACCEPTABLE_DELTA_E_THRESHOLD
    /\ ~matcher.returned
    /\ matcher.compared = 0

C4_UndefinedColorNeverMatches ==
    ( /\ SequenceCalled
      /\ \/ SomeUndefinedColor(ref_wire_housing_colors)
         \/ SomeUndefinedColor(target_wire_housing_colors) )
    => ~matcher.returned

\* A sequence with a partly undefined colour compared with itself under the
\* default threshold: the defined pair matches, the undefined one does not.
C4_Witness ==
    /\ SequenceCalled
    /\ ref_wire_housing_colors = <<RedLab, PartialDataLab>>
    /\ target_wire_housing_colors = <<RedLab, PartialDataLab>>
    /\ acceptable_delta_e_threshold = DEFAULT_ACCEPTABLE_DELTA_E_THRESHOLD
    /\ ~matcher.returned
    /\ matcher.compared = 2

(***************************************************************************)
(* Properties of the Wire Colorimeter (checked under SpecLab).             *)
(***************************************************************************)

Cells(img) == {<<r, c>> : r \in DOMAIN img, c \in DOMAIN img[1]}

AllBackground(img) == \A rc \in Cells(img) : img[rc[1]][rc[2]] = WhiteBgr

OffWhiteInEveryChannel(px) == \A k \in 1..3 : BGR2LAB(px)[k] # WHITE_LAB_COLOR[k]

\* C5: for a crop in which every pixel is white all three components of the
\* result are undefined; for a crop with a pixel whose three channels all
\* differ from white's, all three components are defined.
C5_AllBackgroundIsNoData ==
    lab_color.called =>
        /\ AllBackground(wire_img) => lab_color.value = NoDataLab
        /\ (\E rc \in Cells(wire_img) : OffWhiteInEveryChannel(wire_img[rc[1]][rc[2]]))
              => IsDefinedColor(lab_color.value)

\* An all-white crop of more than one pixel, measured.
C5_Witness ==
    /\ lab_color.called
    /\ Cardinality(Cells(wire_img)) > 1
    /\ AllBackground(wire_img)
    /\ lab_color.value = NoDataLab

\* C6: a pixel is excluded from the three channel means exactly when the pixel
\* as a whole equals white in LAB; any other pixel contributes all three of its
\* channel values.
C6_PixelMissingIffWholePixelIsWhite ==
    lab_color.called =>
        \A rc \in Cells(wire_img) :
            LET px == BGR2LAB(wire_img[rc[1]][rc[2]])
            IN  wire_lab[rc[1]][rc[2]] = IF px = WHITE_LAB_COLOR THEN NoDataLab ELSE px

(***************************************************************************)
(* Properties of the Contour Filter (checked under SpecContour).           *)
(***************************************************************************)

\* C7: the mask filter_out_small_contours returns has its foreground within
\* the input's, and exactly the blobs of the input whose area is below the
\* threshold are background in it (a blob of exactly the threshold is kept).
C7_ExactlySmallBlobsRemoved ==
    filtered.op = "filter_out_small_contours" =>
        /\ filtered.img \subseteq thresh_img
        /\ \A b \in thresh_img :
              b \notin filtered.img <=> contourArea(b) < min_contour_area

\* C8: filter_for_largest_contour never raises; it returns the largest contour
\* alone when that contour's area is at least the floor and an empty mask in
\* every other case, a mask with no contour included.
C8_LargestContourOrEmptyNeverRaises ==
    filtered.op = "filter_for_largest_contour" =>
        /\ ~filtered.raised
        /\ filtered.img =
              IF \E b \in thresh_img : contourArea(b) >= min_contour_area
              THEN drawContourWhite(MaxContour(thresh_img))
              ELSE BlackImage

(***************************************************************************)
(* Properties of the Connector Locator and its callers (checked under      *)
(* SpecConnector).                                                         *)
(***************************************************************************)

\* C9: for every mask, find_connector_contour ends without an exception, in a
\* direct call and in a pass of a stage's loop; a mask with no connector gives
\* a result, not a fault.
C9_NoConnectorIsNotAFault ==
    caller.outcome \notin {"raised", "raised_in_find_connector_contour"}

\* C10: what a caller receives from find_connector_contour and hands to
\* find_wire_roi as connector_contour is a single contour, on which the
\* oriented-bounding-box query is defined, and not a pair.
C10_CallersPassASingleContour ==
    caller.outcome \in {"wire_roi_started", "raised_in_find_wire_roi"} =>
        /\ caller.connector_contour.kind = "contour"
        /\ caller.outcome = "wire_roi_started"

(***************************************************************************)
(* Properties of the Orientation Solver (checked under SpecRect).          *)
(***************************************************************************)

AngleCalled == rect_result.called = "angle"
SizeCalled  == rect_result.called = "size"

SwapPair(p)     == <<p[2], p[1]>>
WithSizeSwapped == [min_area_rect EXCEPT !.size = SwapPair(min_area_rect.size)]

\* C13: get_straigten_rotation_angle returns 0 whenever the raw angle of the
\* rectangle is exactly 0 or exactly 90, whatever the centre, the (width,
\* height) and the height-longer flag.
C13_StraightRectangleNeedsNoRotation ==
    (AngleCalled /\ min_area_rect.angle \in {0, 90}) => rect_result.angle = 0

\* A call on a rectangle of raw angle 90 whose two corner tests would not
\* have called it tilted left, so that only the early return makes the result 0.
C13_Witness ==
    /\ AngleCalled
    /\ min_area_rect.angle = 90
    /\ ~IsTiltedLeft(min_area_rect, is_height_longer_than_width)
    /\ rect_result.angle = 0

\* C14: get_obj_actual_width_and_height returns (min, max) of the raw size
\* when the flag is true and (max, min) when it is false; flipping the flag
\* swaps the two returned values, and the result does not depend on the order
\* of the raw (width, height).
C14_ActualSizeFollowsTheFlag ==
    SizeCalled =>
        /\ rect_result.size =
              IF is_height_longer_than_width
              THEN <<MinOf(min_area_rect.size), MaxOf(min_area_rect.size)>>
              ELSE <<MaxOf(min_area_rect.size), MinOf(min_area_rect.size)>>
        /\ get_obj_actual_width_and_height(min_area_rect, ~is_height_longer_than_width)
              = SwapPair(rect_result.size)
        /\ get_obj_actual_width_and_height(WithSizeSwapped, is_height_longer_than_width)
              = rect_result.size

\* A call with the flag false on a rectangle whose raw width is the shorter side.
C14_Witness ==
    /\ SizeCalled
    /\ ~is_height_longer_than_width
    /\ min_area_rect.size[1] < min_area_rect.size[2]
    /\ rect_result.size = SwapPair(min_area_rect.size)

(***************************************************************************)
(* Properties of the Wire ROI Extractor (checked under SpecRoi).           *)
(***************************************************************************)

FindWireRoiCalled == roi_call.op = "find_wire_roi"
IsValidCalled     == roi_call.op = "is_valid_wire_roi"

\* What the validity check is to decide: some contour of the thresholded
\* crop has an area above ACCEPTABLE_AREA_IN_WIRE_ROI.
HasLargeEnoughContour(crop) == \E area \in crop : area > ACCEPTABLE_AREA_IN_WIRE_ROI

StraightenAngle == get_straigten_rotation_angle(roi_connector_rect, roi_flag)

\* C11: find_wire_roi attempts the crop at most twice: once with the
\* straightening angle a, and a second time exactly when the first crop fails
\* the validity check, with a - 90 when a > 0 and a + 90 otherwise; the second
\* crop is returned valid or not, there is no third attempt, and a valid first
\* crop is returned without a retry.
C11_AtMostOneRetryWithFlippedAngle ==
    FindWireRoiCalled =>
        /\ ~roi_call.raised
        /\ Len(roi_call.attempts) \in {1, 2}
        /\ roi_call.attempts[1] = StraightenAngle
        /\ Len(roi_call.attempts) = 2 <=> ~HasLargeEnoughContour(roi_frame[StraightenAngle])
        /\ Len(roi_call.attempts) = 2 =>
              /\ roi_call.attempts[2] = RetryAngle(StraightenAngle)
              /\ roi_call.wire_roi = roi_frame[RetryAngle(StraightenAngle)]
        /\ Len(roi_call.attempts) = 1 => roi_call.wire_roi = roi_frame[StraightenAngle]

\* C12: is_valid_wire_roi completes for every crop and returns True exactly
\* when the thresholded crop holds a contour of area above 125; it returns
\* False for an all-white crop.
C12_ValidIffLargeEnoughContour ==
    IsValidCalled =>
        /\ ~roi_call.raised
        /\ roi_call.value = HasLargeEnoughContour(roi_call.crop)

(***************************************************************************)
(* Properties of the Wire Segmenter (checked under SpecWires).             *)
(***************************************************************************)

FindWiresCalled == wires_result.called
LabelsAboveOne  == {l \in DOMAIN watershed_labels : l > 1}

\* C15: find_wires returns exactly one crop per watershed label above 1 (the
\* background label 1 and the outline label -1 give none), each around the
\* largest contour of its label, and the crops are ordered left to right by
\* the x of the centre of that contour's rectangle.
C15_OneCropPerWireLabelLeftToRight ==
    FindWiresCalled =>
        /\ ~wires_result.raised
        /\ Len(wires_result.wires) = Cardinality(LabelsAboveOne)
        /\ \A l \in LabelsAboveOne :
              \E i \in DOMAIN wires_result.wires :
                 wires_result.wires[i] =
                     get_wire_from_contour(LargestContour(watershed_labels[l]))
        /\ \A i \in DOMAIN wires_result.wires : wires_result.wires[i].label \in LabelsAboveOne
        /\ \A i \in 1 .. (Len(wires_result.wires) - 1) :
              wires_result.wires[i].center[1] <= wires_result.wires[i + 1].center[1]

\* Two wires whose labels ascend right to left and whose centres ascend
\* top to bottom in the opposite order, with the outline and the background
\* in the labelling.
C15_Witness ==
    /\ FindWiresCalled
    /\ {OutlineLabel, BackgroundLabel} \subseteq DOMAIN watershed_labels
    /\ Len(wires_result.wires) = 2
    /\ wires_result.wires[1].label > wires_result.wires[2].label
    /\ wires_result.wires[1].center[1] < wires_result.wires[2].center[1]
    /\ wires_result.wires[1].center[2] > wires_result.wires[2].center[2]

\* C16: when the watershed yields no label above 1, as for an all-white ROI,
\* find_wires returns the empty sequence and does not raise.
C16_NoWireIsAnEmptyResult ==
    (FindWiresCalled /\ LabelsAboveOne = {}) =>
        /\ ~wires_result.raised
        /\ wires_result.wires = <<>>

\* An ROI labelled as background only.
C16_Witness ==
    /\ FindWiresCalled
    /\ DOMAIN watershed_labels = {BackgroundLabel}
    /\ wires_result.wires = <<>>

(***************************************************************************)
(* Properties of the Thresholder (checked under SpecThresh).               *)
(***************************************************************************)

InRangeCalled == inrange_result.called

\* C17: threshold_with_inRange uses the floor max(150, least V of the
\* background reference), which lies in 150..255; before the small-contour
\* filter a pixel of the frame is background (0) exactly when its V is at
\* least the floor and foreground (255) otherwise, whatever its hue and
\* saturation.
C17_BackgroundIffVAtLeastFloor ==
    InRangeCalled =>
        /\ inrange_result.lowest_v_value >= DEFAULT_LOWEST_V_VALUE
        /\ inrange_result.lowest_v_value >= MinV(bg_img_hsv)
        /\ inrange_result.lowest_v_value \in {DEFAULT_LOWEST_V_VALUE, MinV(bg_img_hsv)}
        /\ inrange_result.lowest_v_value <= 255
        /\ \A i \in DOMAIN frame_hsv :
              /\ inrange_result.pixels[i] \in {0, 255}
              /\ inrange_result.pixels[i] = 0 <=> frame_hsv[i].v >= inrange_result.lowest_v_value
              /\ \A h \in {0, 90, 179}, s \in {0, 128, 255} :
                    ThreshPixel(<<h, s, frame_hsv[i].v>>, inrange_result.lowest_v_value)
                        = inrange_result.pixels[i]

\* A call with a background reference darker than 150 on a frame that holds a
\* region at the floor and a saturated region just under it.
C17_Witness ==
    /\ InRangeCalled
    /\ MinV(bg_img_hsv) < DEFAULT_LOWEST_V_VALUE
    /\ \E i \in DOMAIN frame_hsv, j \in DOMAIN frame_hsv :
          /\ frame_hsv[i].v = 150 /\ inrange_result.pixels[i] = 0
          /\ frame_hsv[j].v = 149 /\ frame_hsv[j].hs = <<179, 255>>
          /\ inrange_result.pixels[j] = 255

(***************************************************************************)
(* Properties of the frame source (checked under SpecStream, and under     *)
(* SpecStreamLive for what rests on scheduling).                           *)
(***************************************************************************)

AliveThreads    == ThreadsInRun
LaunchedThreads == {t \in CaptureThreads : capture_threads[t].pc # "unborn"}
WaitingInGet(r) == readers[r].pc = "get"

\* The stream is running, on an open camera, with a capture thread in __run.
KeepsProducing == is_running = Running /\ AliveThreads # {} /\ closes = 0

\* A read() that begins while the stream is not running raises and leaves the
\* queue alone; one that begins while it is running goes on to wait in get().
ReadBeginsAsTheFlagSays ==
    \A r \in Readers :
        (readers[r].pc = "idle" /\ readers'[r] # readers[r]) =>
            IF is_running # Running
            THEN /\ readers'[r].pc = "idle"
                 /\ readers'[r].last = "raised"
                 /\ frame_queue' = frame_queue
            ELSE readers'[r].pc = "get"

\* A read() leaves get() only with the frame that was in the queue, and
\* takes it out.
ReadReturnsTheQueuedFrame ==
    \A r \in Readers :
        (WaitingInGet(r) /\ ~WaitingInGet(r)') =>
            /\ frame_queue # <<>>
            /\ readers'[r].last = "returned"
            /\ readers'[r].frame = Head(frame_queue)
            /\ frame_queue' = Tail(frame_queue)

\* C18: read() raises whenever the stream is not running (never started, or
\* stopped), without touching the buffer; when the stream is running it
\* waits until a frame is in the buffer and returns that frame; and while the
\* stream stays running with a capture thread that keeps producing frames,
\* every waiting read() eventually returns.
C18_ReadRaisesOrEventuallyReturns ==
    /\ [][ReadBeginsAsTheFlagSays /\ ReadReturnsTheQueuedFrame]_vars
    /\ \A r \in Readers :
          (WaitingInGet(r) /\ KeepsProducing) ~> (~WaitingInGet(r) \/ is_running # Running)

\* A read() waiting on the empty queue of a running stream, after an earlier
\* read() returned a frame.
C18_Witness ==
    /\ \E r \in Readers : WaitingInGet(r)
    /\ frame_queue = <<>>
    /\ KeepsProducing
    /\ returned # {}

C20_StartSucceedsOnFreshStream ==
    /\ start_call.before = Unset => start_call.outcome = "launched"
    /\ start_call.before = Running => start_call.outcome = "returned"

(***************************************************************************)
(* The case table of the Orientation Solver (checked under SpecRect).      *)
(***************************************************************************)

\* The two lowest corners of the rectangle of the call, lowest first, a
\* corner listed earlier by cv2.boxPoints going first among equally low ones.
CornersOfCall == boxPoints(min_area_rect)
LowestCornerOfCall ==
    CHOOSE i \in 1 .. 4 :
        /\ \A j \in 1 .. 4 : CornersOfCall[j][2] <= CornersOfCall[i][2]
        /\ \A j \in 1 .. (i - 1) : CornersOfCall[j][2] < CornersOfCall[i][2]
SecondLowestCornerOfCall ==
    CHOOSE i \in (1 .. 4) \ {LowestCornerOfCall} :
        /\ \A j \in (1 .. 4) \ {LowestCornerOfCall} : CornersOfCall[j][2] <= CornersOfCall[i][2]
        /\ \A j \in (1 .. (i - 1)) \ {LowestCornerOfCall} : CornersOfCall[j][2] < CornersOfCall[i][2]
LowestIsLeft ==
    CornersOfCall[LowestCornerOfCall][1] < CornersOfCall[SecondLowestCornerOfCall][1]

\* The square of the distance d between the two lowest corners.
BottomDistance2 ==
    LET dx == CornersOfCall[LowestCornerOfCall][1] - CornersOfCall[SecondLowestCornerOfCall][1]
        dy == CornersOfCall[LowestCornerOfCall][2] - CornersOfCall[SecondLowestCornerOfCall][2]
    IN  dx * dx + dy * dy
RawW2 == min_area_rect.size[1] * min_area_rect.size[1]
RawH2 == min_area_rect.size[2] * min_area_rect.size[2]

\* C22: for a raw angle that is neither 0 nor 90, get_straigten_rotation_angle
\* returns the raw angle or the raw angle minus 90, a value strictly between
\* -90 and 90; it returns raw - 90 exactly when (height-longer, lowest corner
\* left, w > d), (height-longer, lowest not left, h < d), (width-longer,
\* lowest left, w < d) or (width-longer, lowest not left, h > d).
C22_TiltCaseTable ==
    (AngleCalled /\ min_area_rect.angle \notin {0, 90}) =>
        /\ rect_result.angle \in {min_area_rect.angle, min_area_rect.angle - 90}
        /\ -90 < rect_result.angle /\ rect_result.angle < 90
        /\ rect_result.angle = min_area_rect.angle - 90 <=>
              \/ is_height_longer_than_width /\ LowestIsLeft /\ RawW2 > BottomDistance2
              \/ is_height_longer_than_width /\ ~LowestIsLeft /\ RawH2 < BottomDistance2
              \/ ~is_height_longer_than_width /\ LowestIsLeft /\ RawW2 < BottomDistance2
              \/ ~is_height_longer_than_width /\ ~LowestIsLeft /\ RawH2 > BottomDistance2

\* A width-longer object whose lowest corner is the left one and whose raw
\* width is shorter than the bottom edge: the result is raw - 90.
C22_Witness ==
    /\ AngleCalled
    /\ min_area_rect.angle \notin {0, 90}
    /\ ~is_height_longer_than_width
    /\ LowestIsLeft
    /\ RawW2 < BottomDistance2
    /\ rect_result.angle = min_area_rect.angle - 90

(***************************************************************************)
(* Properties of the retry flip (checked under SpecFlip).                  *)
(***************************************************************************)

\* The raw angles strictly between 0 and 90 of the rectangles of the model.
TiltedRawAngles == { r \in RectAngles : 0 < r /\ r < 90 }

\* C29: the flip f(a) = a - 90 if a > 0 else a + 90 sends every straightening
\* angle of (-90, 90) into (-90, 90], the flip of the flip is the angle
\* itself, the two candidates r and r - 90 of a raw angle r of (0, 90) are
\* sent to each other, and the angle 0 is retried with 90.
C29_RetryFlipIsAnInvolution ==
    /\ Len(retry_angles) >= 1 =>
          /\ retry_angles[1] = (IF straighten_angle > 0
                                    THEN straighten_angle - 90
                                    ELSE straighten_angle + 90)
          /\ -90 < retry_angles[1] /\ retry_angles[1] <= 90
          /\ straighten_angle = 0 => retry_angles[1] = 90
          /\ straighten_angle \in TiltedRawAngles =>
                retry_angles[1] = straighten_angle - 90
          /\ (straighten_angle + 90) \in TiltedRawAngles =>
                retry_angles[1] = straighten_angle + 90
    /\ Len(retry_angles) >= 2 => retry_angles[2] = straighten_angle

\* The already-straight connector: retried with 90, and the flip of 90 is 0.
C29_Witness ==
    /\ straighten_angle = 0
    /\ retry_angles = <<90, 0>>

(***************************************************************************)
(* The matcher and its threshold (checked under Spec).                     *)
(***************************************************************************)

\* The distance of the i-th colours of the two sequences of the call.
PositionalDistance(i) ==
    delta_e_cie2000(LabColor(ref_wire_housing_colors[i]),
                    LabColor(target_wire_housing_colors[i]))

C25_CandidateMeansConnectorIsFound ==
    ( /\ caller.who # "none"
      /\ has_wire_connector_candidate(frame_threshold) )
    => /\ caller.outcome \notin {"raised", "raised_in_find_connector_contour"}
       /\ caller.who = "find_connector_contour" =>
             /\ caller.outcome = "returned"
             /\ caller.connector_contour.kind = "pair"

(***************************************************************************)
(* Properties of the frame source under repeated start() and stop()        *)
(* (checked under SpecRestart and SpecRestartLive).                        *)
(***************************************************************************)

\* The capture threads that got a frame from the capture stream, or wait for
\* one in it.
IteratingThreads ==
    {t \in DOMAIN capture_threads :
        capture_threads[t].pc \in {"in_next", "get_nowait", "put", "check"}}

\* The capture threads that hold a frame to put into the buffer.
WritingThreads ==
    {t \in DOMAIN capture_threads : capture_threads[t].pc \in {"get_nowait", "put"}}

\* C26: under any interleaving of start() and stop() with the capture
\* thread, at most one capture thread is alive at any time; stop() followed by
\* start() leaves no two threads iterating the capture stream and writing
\* the buffer.
C26_AtMostOneCaptureThreadAlive ==
    /\ Cardinality(ThreadsInRun) <= 1
    /\ Cardinality(IteratingThreads) <= 1
    /\ Cardinality(WritingThreads) <= 1

\* stop() was called on a running stream (the flag set, a capture thread in
\* __run, the camera open) and start() was not called since.
StoppedWhileRunning ==
    /\ after_stop.pending
    /\ after_stop.open
    /\ after_stop.threads >= 1

\* A read() that begins while the flag is false raises.
ReadAfterStopRaises ==
    \A r \in Readers :
        (is_running = Stopped /\ readers[r].pc = "idle" /\ readers'[r] # readers[r]) =>
            /\ readers'[r].pc = "idle"
            /\ readers'[r].last = "raised"

\* C27: after stop() on a running stream, with no start() after it and a
\* camera that delivers a further frame, at most one further frame is
\* published, the raw capture and the camera are closed exactly once, the
\* capture thread terminates, and every read() that begins after the stop()
\* raises.
C27_StopEndsTheCaptureThread ==
    /\ [](StoppedWhileRunning =>
            /\ after_stop.puts <= 1
            /\ after_stop.closes <= 1
            /\ ThreadsInRun = {} => after_stop.closes = 1)
    /\ [][ReadAfterStopRaises]_vars
    /\ StoppedWhileRunning ~> (ThreadsInRun = {} \/ ~StoppedWhileRunning)

\* A read() that returns takes its frame out of the buffer, and the frame was
\* captured after every frame a read() returned before.
ReadReturnsANewerFrame ==
    \A r \in Readers :
        (readers'[r] # readers[r] /\ readers'[r].last = "returned") =>
            /\ frame_queue # <<>>
            /\ readers'[r].frame = Head(frame_queue)
            /\ frame_queue' = Tail(frame_queue)
            /\ \A f \in returned : f < readers'[r].frame

\* C28: each captured frame is returned by at most one read(), and
\* successive read() calls return frames in strictly increasing capture
\* order, read() removing the frame it returns from the buffer.
C28_ReadsReturnFramesInCaptureOrder == [][ReadReturnsANewerFrame]_vars

(***************************************************************************)
(* Properties of the workflow (checked under SpecWorkflow).                *)
(***************************************************************************)

\* The stage of each place of the control thread.
StageOf(place) ==
    CASE place \in {"height_config", "bg_config"}            -> "Initialize"
      [] place \in {"capture_bg", "accept_bg"}               -> "Background Capture"
      [] place \in {"capture_reference", "accept_reference"} -> "Reference Capture"
      [] place = "check"                                     -> "Check"
      [] OTHER                                               -> place

InReferenceOrCheck == control \in {"capture_reference", "accept_reference", "check"}

\* The background image a configured stage holds is None exactly when its
\* setting do_threshold_with_bg is false, and else a frame the user accepted
\* and did not reject.
HoldsBackgroundAsSet(stage) ==
    stage.user_config # NoConfig =>
        /\ stage.bg_img = None <=> ~stage.user_config.do_threshold_with_bg
        /\ stage.bg_img # None =>
              /\ stage.bg_img \in user_answers.accepted_bg
              /\ stage.bg_img \notin user_answers.rejected_bg

\* C21: in every reachable state of the workflow, Retake Reference and New
\* Configs included, the background reference the reference-capture and the
\* check stage hold is None exactly when the user setting
\* do_threshold_with_bg is false, and else a frame the user accepted with y
\* in the background-capture stage, never one rejected with n; the stage the
\* control thread is in holds the setting the user gave last.
C21_BackgroundHeldIffAskedFor ==
    /\ HoldsBackgroundAsSet(reference_capture_stage)
    /\ HoldsBackgroundAsSet(check_capture_stage)
    /\ InReferenceOrCheck =>
          reference_capture_stage.user_config = bg_capture_stage.user_config
    /\ control = "check" =>
          /\ check_capture_stage.user_config = bg_capture_stage.user_config
          /\ check_capture_stage.bg_img = reference_capture_stage.bg_img

\* The check stage after New Configs: it was configured with an accepted
\* background image first, the first capture having been rejected, and is
\* now configured with none.
C21_Witness ==
    /\ control = "check"
    /\ check_capture_stage.bg_img = None
    /\ ~check_capture_stage.user_config.do_threshold_with_bg
    /\ user_answers.accepted_bg # {}
    /\ user_answers.rejected_bg # {}

\* The keys outside which a wait at this place goes on.
AcceptableKeysAt(place) ==
    CASE place \in {"height_config", "bg_config"} -> ACCEPTABLE_KEYS_FOR_INITIALIZE_STAGE
      [] place = "capture_bg"        -> QUIT_KEYS \cup {ENTER_KEY}
      [] place = "accept_bg"         -> ACCEPTABLE_KEYS_FOR_ACCEPT_CAPTURED_BG_FRAME
      [] place = "capture_reference" -> QUIT_KEYS
      [] place = "accept_reference"  -> ACCEPTABLE_KEYS_FOR_ACCEPT_CAPTURED_REFERENCE_WIRE_HOUSING
      [] place = "check"             -> ACCEPTABLE_KEYS_FOR_CHECK_CAPTURE_STAGE
      [] OTHER                       -> {}

\* A step in which a stage is entered from another one.
EntersStage == 
    /\ StageOf(control') # StageOf(control)
    /\ control' \notin {"exited", "raised"}

\* The stage order: each stage is entered from its predecessor (the
\* background capture stage passes straight on when no background image is
\* asked for), Check is left for Reference Capture by r and for Initialize
\* by n, and Check is entered on a y at the reference accept prompt.
FollowsStageOrder ==
    EntersStage =>
        \/ /\ control = "bg_config" /\ control' = "capture_bg"
           /\ input_key' \in {Y_KEY, N_KEY}
        \/ /\ control = "bg_config" /\ control' = "capture_reference"
           /\ input_key' \in {Y_KEY, N_KEY}
           /\ ~bg_capture_stage'.user_config.do_threshold_with_bg
           /\ reference_capture_stage'.user_config = bg_capture_stage'.user_config
        \/ /\ control = "accept_bg" /\ control' = "capture_reference"
           /\ input_key' = Y_KEY
        \/ /\ control = "accept_reference" /\ control' = "check"
           /\ input_key' = Y_KEY
        \/ /\ control = "check" /\ control' = "capture_reference"
           /\ input_key' = R_KEY
        \/ /\ control = "check" /\ control' = "height_config"
           /\ input_key' = N_KEY

\* A key outside the acceptable keys of the place changes nothing but the
\* key; q and ESC exit, and nothing else does; n at an accept prompt goes
\* back to capturing in the same stage.
KeysActAsListed ==
    /\ (input_key' \notin AcceptableKeysAt(control) /\ control' # "raised") =>
          \/ UNCHANGED <<control, initialize_stage, bg_capture_stage, reference_capture_stage,
                         check_capture_stage, shots, user_answers>>
          \/ control = "capture_reference" /\ control' = "accept_reference"
                /\ input_key' = input_key
    /\ (input_key' \in QUIT_KEYS /\ control \notin {"exited", "raised"}
          /\ control' # "raised") => control' = "exited"
    /\ (control' = "exited" /\ control # "exited") => input_key' \in QUIT_KEYS
    /\ (control = "accept_bg" /\ input_key' = N_KEY) => control' = "capture_bg"
    /\ (control = "accept_reference" /\ input_key' = N_KEY) => control' = "capture_reference"

\* C23: the workflow follows the order Initialize, Background Capture,
\* Reference Capture, Check; from Check r enters Reference Capture and n
\* enters Initialize; keys outside a stage's acceptable keys cause no
\* transition; q or ESC at any prompt exits the program; n at the background
\* or reference accept prompt returns to capturing in the same stage; Check
\* is entered only after the user accepted a captured reference with y.
C23_StagesFollowTheKeys == [][FollowsStageOrder /\ KeysActAsListed]_vars

\* Initialize entered again from the check stage with New Configs.
C23_Witness ==
    /\ control = "height_config"
    /\ input_key = N_KEY
    /\ check_capture_stage.user_config # NoConfig

\* C24: the check stage is only ever configured with a non-empty reference
\* colour sequence, the one computed from the capture the user accepted last;
\* when the user accepts a capture in which no wire was found,
\* ReferenceCaptureStage.run raises instead of entering the check stage.
C24_CheckHoldsTheAcceptedReference ==
    /\ [](check_capture_stage.user_config # NoConfig =>
            /\ check_capture_stage.reference_color_sequence # None
            /\ check_capture_stage.reference_color_sequence.wires > 0
            /\ control = "check" =>
                  check_capture_stage.reference_color_sequence
                      = user_answers.accepted_reference)
    /\ [][ ( /\ control = "accept_reference"
             /\ input_key' = Y_KEY
             /\ reference_capture_stage.reference_color_sequence.wires = 0 )
           => ( /\ control' = "raised"
                /\ check_capture_stage' = check_capture_stage ) ]_vars

\* The user accepted a capture with no wire after a retake from the check
\* stage: run raised, and the check stage keeps its reference.
C24_Witness ==
    /\ control = "raised"
    /\ input_key = Y_KEY
    /\ user_answers.accepted_reference # None
    /\ user_answers.accepted_reference.wires = 0
    /\ check_capture_stage.user_config # NoConfig

====
